---- MODULE Spec2Model ----
(***************************************************************************)
(* Model of the three scrapers of this repository:                         *)
(*   src/sifang_crawler.py        SifangCrawler (pipelined crawl/download) *)
(*   src/美图色色.py               MeituSpider                              *)
(*   src/爬取ku1372的所有图集.py    ku1372 archive downloader                *)
(*                                                                         *)
(* Spec       one run of the SifangCrawler pipeline: producer thread,      *)
(*            consumer loop, album pool, ProgressRecord.                   *)
(* SpecRerun  the pipeline run twice on one output directory, the first    *)
(*            run ending by itself or interrupted.                         *)
(* SpecImage  SifangCrawler.download_image step by step, two calls on one  *)
(*            destination path.                                            *)
(* SpecKu     the ku1372 archive download, its extraction step and a       *)
(*            second run.                                                  *)
(* SpecStats  worker threads updating self.stats through update_stats.     *)
(* SpecPool   the album pool of download() and the image pool of each      *)
(*            download_album.                                              *)
(* SpecMeitu  MeituSpider._download_image, one call per image of an album. *)
(* SpecPages  one pagination loop of one of the scrapers walking a site.   *)
(* SpecExtract  the image links collected from the pages of one album.     *)
(* SpecRequest  SifangCrawler.retry_request, one call and its answers.     *)
(* SpecMeituRun MeituSpider.run: the album pool, then two retry passes.    *)
(* SpecSave     threads in save_completed_album and save_cookies.          *)
(* SpecProgress workers updating the counters and printing the progress.   *)
(* SpecLive     one pipeline run with every thread scheduled (fairness).   *)
(* SpecKuPool   ku1372 main(): the counters and the pool of a listing page. *)
(***************************************************************************)
EXTENDS Integers, Sequences, FiniteSets, TLC

VARIABLES
    \* ---- the site and the command line (fixed during a behaviour)
    listing,            \* listing pages: sequence of pages, each a sequence of album URLs
    images,             \* album URL -> number of images of the album
    verify,             \* SifangCrawler.verify (--verify)
    \* ---- the file system under save_path (survives a restart)
    files,              \* image destination path -> "none" | "good" | "bad"
    completed_file,     \* completed_albums.txt: the sequence of lines appended
    \* ---- SifangCrawler object and download() locals (one process)
    completed_albums,   \* self.completed_albums
    failed_albums,      \* self.failed_albums, as a bag: album URL -> entries
    failed_images,      \* self.failed_images, as a bag: path -> entries
    stats,              \* self.stats counters
    album_queue,        \* queue.Queue of album items (item ids)
    crawl_complete,     \* threading.Event
    crawl,              \* crawl_albums thread: pc, page, idx, nput
    main,               \* download() consumer loop: pc, futures
    task,               \* item id -> the download_album call made for the item
    \* ---- history of the runs
    run,                \* "first" | "second"
    hist,               \* what the rerun is compared against
    \* ---- the two download operations, step by step
    dl,                 \* SifangCrawler.download_image: two calls on one save_path
    ku,                 \* ku1372 download_album_wrapper and extraction, one album
    st,                 \* worker threads updating self.stats through update_stats
    pool,               \* the album pool and the image pool of each download_album
    mt,                 \* MeituSpider._download_image calls of one album
    pg,                 \* one pagination loop and the site it walks
    ex,                 \* one image extraction: the pages of an album and the list built
    rq,                 \* one SifangCrawler.retry_request call
    mr,                 \* MeituSpider.run: album pool, failure lists and retry loops
    sv,                 \* album workers in save_completed_album and save_cookies
    pp,                 \* album workers updating and printing the current-album counters
    kp                  \* ku1372 main(): the counters and the album pool of a listing page

pipeVars == << listing, images, verify, files, completed_file, completed_albums,
               failed_albums, failed_images, stats, album_queue, crawl_complete,
               crawl, main, task, run, hist >>

otherVars == << dl, ku, st, pool, mt, pg, ex, rq, mr, sv, pp, kp >>

\* the pipeline variables but self.stats
pipeNoStats ==
    << listing, images, verify, files, completed_file, completed_albums,
       failed_albums, failed_images, album_queue, crawl_complete, crawl,
       main, task, run, hist >>

vars == << pipeVars, otherVars >>

siteVars == << listing, images, verify >>

----------------------------------------------------------------------------
\* Bounds of the model

\* images per album: 0 .. MaxImgs
MaxImgs == 2

\* size of the album pool; self.max_workers is 4 in the source
\* (src/sifang_crawler.py:70), scaled so that the bounded listings fill it
max_workers == 2

Albums == {"a", "b"}

ImgIdx == 1..MaxImgs

\* <root>/<album_name>/image_<i>.<ext>  (download_album, lines 724, 737-738)
Paths == Albums \X ImgIdx

\* The listings the producer can meet: an album URL on two listing pages,
\* and two pages with different albums.
ListingChoices ==
    { << <<"a", "b">>, <<"a">> >>,
      << <<"a">>, <<"b">> >> }

TotalLen(l) == Len(l[1]) + Len(l[2])

MaxItems == CHOOSE n \in 0..8 :
                /\ \E l \in ListingChoices : TotalLen(l) = n
                /\ \A l \in ListingChoices : TotalLen(l) <= n

Items == 1..MaxItems

ListedOn(l) == UNION { { l[p][j] : j \in DOMAIN l[p] } : p \in DOMAIN l }

----------------------------------------------------------------------------
\* Pure helpers

\* get_album_images: the album name is the page title; distinct albums of the
\* modelled site carry distinct titles
AlbumName(a) == a

PathOf(a, i) == << AlbumName(a), i >>

\* is_image_corrupted: True when PIL cannot open/verify/load the file
is_image_corrupted(content) == content # "good"

\* mutant of SkipsExisting: the skip rule left out
NeverSkips(content) == FALSE

\* download_image, lines 629-638: the skip rule for an existing destination
SkipsExisting(content) ==
    /\ content # "none"
    /\ (~verify \/ ~is_image_corrupted(content))

\* an album whose images do not fit one page continues on a second page;
\* the first page then carries the first image
HasSecondPage(a) == images[a] >= 2

PageOneCount(a) == IF HasSecondPage(a) THEN 1 ELSE images[a]

BlankTask ==
    [ url |-> "none", pc |-> "none", n |-> 0,
      res |-> [i \in ImgIdx |-> "na"], col |-> 0,
      ret |-> "none", atStart |-> FALSE, raised |-> FALSE, fetched |-> FALSE,
      subs |-> 0 ]

ZeroStats ==
    [ total_albums |-> 0, downloaded_albums |-> 0,
      total_images |-> 0, downloaded_images |-> 0 ]

Range(s) == { s[i] : i \in 1..Len(s) }

NPages == Len(listing)

\* download_album is executing for item k
Running(k) == task[k].pc \in {"start", "images"}

\* the call made for item k has returned
Finished(k) == task[k].pc = "done"

----------------------------------------------------------------------------
\* Spec: the SifangCrawler pipeline

ZeroBag(S) == [x \in S |-> 0]

CrawlStart == [ pc |-> "fetch", page |-> 1, idx |-> 1, nput |-> 0, seen |-> {} ]

MainStart == [ pc |-> "check_set", futures |-> {} ]

HistStart ==
    [ prevEnd |-> "none", fetched |-> {}, present0 |-> [p \in Paths |-> "none"],
      completed0 |-> {}, killed |-> {} ]

\* SifangCrawler.__init__ and download() up to the start of both threads, on
\* a site (L, I), a command line V and an output directory F
InitWith(S, V, F) ==
    /\ \E site \in S : listing = site.listing /\ images = site.images
    /\ verify \in V
    /\ files \in F
    /\ completed_file = << >>
    /\ completed_albums = {}
    /\ failed_albums = ZeroBag(Albums)
    /\ failed_images = ZeroBag(Paths)
    /\ stats = ZeroStats
    /\ album_queue = << >>
    /\ crawl_complete = FALSE
    /\ crawl = CrawlStart
    /\ main = MainStart
    /\ task = [k \in Items |-> BlankTask]
    /\ run = "first"
    /\ hist = [HistStart EXCEPT !.present0 = files]

EmptyDir == [p \in Paths |-> "none"]

\* the two threads that call download_image with the same save_path
Callers == {1, 2}

\* download_image, line 641
max_retries == 5

\* a download_image call that has not started
CallStart ==
    [pc |-> "idle", retry |-> 0, hnd |-> "none", body |-> "none",
     torn |-> FALSE, ret |-> "none", rejected |-> FALSE]

\* save_path and save_path + '.tmp' before any call: neither file exists
DlIdle ==
    [posix |-> TRUE, dest |-> "none", tmp |-> "none",
     thr |-> [t \in Callers |-> CallStart]]

\* ku1372 main(), lines 299-322: the options, before the first album
KuStart(v, x, d) ==
    [verify |-> v, should_extract |-> x, delete_after |-> d,
     zip |-> "none", extracted |-> FALSE,
     pc |-> "idle", retry_count |-> 0, ret |-> "none",
     run |-> 1, prevEnd |-> "none", got1 |-> FALSE, requests2 |-> 0,
     skipped2 |-> "none", failedAt |-> "none", announced |-> FALSE]

KuIdle == KuStart(FALSE, FALSE, FALSE)

\* the pool threads that update the counters of self.stats
Workers == {1, 2}

\* counter updates made by one worker
MaxUpdates == 2

\* the counters of self.stats that pool threads update (lines 679, 728, 764)
CounterKeys == {"downloaded_images", "downloaded_albums", "total_images"}

\* no update under way; stats_lock (line 94) free
StStart(n) ==
    [lock |-> 0,
     thr |-> [t \in Workers |-> [pc |-> "idle", key |-> "none", value |-> 0,
                                 left |-> n]],
     expected |-> [key \in CounterKeys |-> 0]]

StIdle == StStart(0)

\* albums handed to the album pool, and the most images an album has
PoolAlbums == 3

PoolImgs == 3

\* self.img_max_workers, line 71
img_max_workers == 2

\* a download_album call submitted to the album pool, not yet started
PoolCall ==
    [pc |-> "submitted", n |-> 0, call |-> [i \in 1..PoolImgs |-> "na"],
     col |-> 0, downloaded_images |-> 0, ret |-> "none",
     trues |-> 0, ok200 |-> 0]

PoolStart(n) == [k \in 1..n |-> PoolCall]

PoolIdle == PoolStart(0)

\* the _download_image calls of one MeituSpider album, one per image
MtCalls == {1, 2}

\* a _download_image call that has not started, its save_path holding d
MtCall(d) ==
    [pc |-> "idle", dest |-> d, tmp |-> "none", dest0 |-> d, body |-> "none",
     ret |-> "none", fetched |-> FALSE, rejected |-> FALSE]

\* MeituSpider.__init__, lines 18-32, and the files of the album directory
MtStart(v, d) ==
    [verify |-> v, failed_images |-> 0, call |-> [c \in MtCalls |-> MtCall(d[c])]]

MtIdle == MtStart(FALSE, [c \in MtCalls |-> "none"])

\* ---- the paginators
\* a listing has pages ?page=1 .. ?page=MaxPages; a paginator is stopped
\* after MaxFetches requests
MaxPages == 3
MaxFetches == 5
ListingPages == 1..MaxPages

\* None as a URL, and a URL outside the site's domain
NoUrl == 0
Offsite == -1

\* what a listing page shows to a paginator: arrow is the href of its first
\* next-page anchor (NoUrl: it has none), nums the page numbers of its
\* page= links
ListingSoups(arrows, numsets) ==
    [ok : {TRUE}, arrow : arrows, nums : numsets]

\* the soup of a request that got no response
NoSoup == [ok |-> FALSE, arrow |-> NoUrl, nums |-> {}]

\* the URLs an album page can link to: the pages of the album at AlbumUrl,
\* a page of another album, a page of the site that is no album, a page of
\* another site
AlbumUrl == "A1"
AlbumUrls == {"A1", "A2", "B1"}
AlbumTargets == AlbumUrls \cup {"none", "home", "off"}
AlbumOf(u) == IF u \in {"A1", "A2"} THEN "A" ELSE IF u = "B1" THEN "B" ELSE "none"

\* what an album page shows: arrow is the href of its first anchor matching
\* arrow_patterns, numbered the href of its first page= link numbered
\* current_page + 1 ("none": it has none)
AlbumSoups == [arrow : AlbumTargets, numbered : AlbumTargets]

\* a paginator about to make its first request
PgStart(loop, site, first, id) ==
    [loop |-> loop, pc |-> "run", site |-> site, current_url |-> first,
     page |-> 1, tag_has_id |-> id, processed_urls |-> {},
     all_image_links |-> {}, visited |-> << >>, unanswered |-> FALSE]

PgIdle == [PgStart("idle", << >>, NoUrl, FALSE) EXCEPT !.pc = "done"]

\* ---- the image extractors
\* an album has up to MaxAlbumPages pages of up to MaxTags img tags each
MaxAlbumPages == 2
MaxTags == 3

\* the src values of img tags: two pictures and one whose URL holds an
\* obvious ad keyword; "" is an empty entry of data-screenshots
ImgUrls == {"u1", "u2", "ad"}

RECURSIVE SeqsUpTo(_, _)
SeqsUpTo(S, n) ==
    IF n = 0 THEN { << >> }
    ELSE LET shorter == SeqsUpTo(S, n - 1)
         IN  shorter \cup { Append(q, x) : q \in shorter, x \in S }

\* an extractor about to read the first page
ExStart(who, pages) ==
    [who |-> who, pc |-> "run", pages |-> pages, read |-> 0,
     all_image_links |-> << >>]

ExIdle == [ExStart("idle", << >>) EXCEPT !.pc = "done"]

\* ---- retry_request
\* a retry_request call is followed for MaxRequests requests
MaxRequests == 12

\* retry_request(self, url, max_retries=5, ...), and the backoff numbers of
\* its except branch
rq_max_retries == 5
base_delay == 6
max_delay == 45

\* random.uniform(0, 2), in whole seconds
Jitter == 0..2

\* what a request can end in: a 2xx response from the site, a 2xx response
\* whose final URL is outside the site, status 443, another error status
\* (raise_for_status raises), a connection reset (10054), another
\* transport error
Outcomes == {"ok", "offsite", "443", "http_error", "reset", "error"}

\* a retry_request call about to enter its loop
RqStart ==
    [pc |-> "request", retries |-> 0, sent |-> 0, last |-> "none",
     band |-> "none", delay |-> 0, confirms |-> 0, ret |-> "pending"]

RqIdle == [RqStart EXCEPT !.pc = "idle"]

\* ---- MeituSpider.run
\* the albums MeituSpider.run has listed, and the turns a retry loop is
\* followed for
MrAlbums == {1, 2}
MaxTurns == 4

\* what processing an album comes to: its page gets no response, its page
\* holds no image, its one image cannot be downloaded, or all is well
AlbumKinds == {"no_response", "no_images", "image_fails", "ok"}

ZeroCount == [a \in MrAlbums |-> 0]

\* MeituSpider.run at the start of its album pool, lines 350-356, the
\* listing crawl of lines 318-343 having found the albums of `found`
MrStart(found, kind) ==
    [pc |-> "pool", found |-> found, kind |-> kind,
     result |-> [a \in MrAlbums |-> "none"],
     run_failed |-> 0, failed_albums |-> << >>, failed_images |-> << >>,
     i |-> 0, start_albums |-> << >>, start_images |-> << >>,
     retried_albums |-> ZeroCount, retried_images |-> ZeroCount,
     submitted |-> << >>, auto_retried |-> ZeroCount]

MrIdle == [MrStart(MrAlbums, [a \in MrAlbums |-> "ok"]) EXCEPT !.pc = "idle"]

\* ---- save_completed_album and save_cookies
\* the album worker threads that have downloaded an album and record it
SvThreads == {1, 2}

\* the worker threads at line 769 of download_album, thread t holding
\* album_url[t]; cookies.json holds what an earlier save left
SvStart(album_url) ==
    [pc |-> [t \in SvThreads |-> "check"], album_url |-> album_url,
     completed_albums |-> {}, lines |-> << >>,
     cookie_file |-> "whole", overlapped |-> [t \in SvThreads |-> FALSE]]

SvIdle == [SvStart([t \in SvThreads |-> "a"]) EXCEPT
              !.pc = [t \in SvThreads |-> "idle"]]

\* ---- the progress display
\* the album workers that report progress, and the images of an album
PpWorkers == {1, 2}
PpImgs == 2

\* the three values of self.stats that print_progress shows for the current
\* album, each with the worker and the progress update that stored it
\* (worker 0: the value set by __init__)
PpStats0 ==
    [current_album |-> 0,
     current_album_progress |-> [by |-> 0, upd |-> 0],
     current_image |-> [by |-> 0, upd |-> 0]]

\* the album workers at line 717 of download_album; nothing printed yet
PpStart ==
    [pc |-> [w \in PpWorkers |-> "album"], upd |-> [w \in PpWorkers |-> 0],
     stats |-> PpStats0, printed |-> PpStats0, prints |-> 0]

PpIdle == [PpStart EXCEPT !.pc = [w \in PpWorkers |-> "idle"]]

\* ku1372 main(): listing pages of a tag that hold albums, albums on a page
KpPages == 2
KpAlbums == 2

KpThreads == 1..KpAlbums

\* what a download_album_wrapper call comes to: a fresh download that
\* passed the validations, a skip of an existing file, a failure after the
\* retries or without a download link, an exception out of the wrapper
KpOutcomes == {"fresh", "skip", "fail", "raise"}

\* a pool thread before its call
KpThreadIdle == [pc |-> "idle", outcome |-> "none", loaded |-> 0]

\* ku1372 main() at line 421, with the albums of the first page of a tag
\* extracted: the module-level counters are 0 (lines 26-28), total_success
\* is 0 (line 336)
KpStart(n) ==
    [pc |-> "count", page |-> 1, n |-> n, counted |-> 0,
     total_albums_count |-> 0, processed_albums_count |-> 0,
     thread_success_count |-> 0, total_success |-> 0,
     thr |-> [a \in KpThreads |-> KpThreadIdle],
     collected |-> {}, fresh |-> 0]

KpIdle == [KpStart(0) EXCEPT !.pc = "idle"]

\* every part of the model that a specification does not run is at rest
IdleExcept(S) ==
    /\ IF "dl" \in S THEN TRUE ELSE dl = DlIdle
    /\ IF "ku" \in S THEN TRUE ELSE ku = KuIdle
    /\ IF "st" \in S THEN TRUE ELSE st = StIdle
    /\ IF "pool" \in S THEN TRUE ELSE pool = PoolIdle
    /\ IF "mt" \in S THEN TRUE ELSE mt = MtIdle
    /\ IF "pg" \in S THEN TRUE ELSE pg = PgIdle
    /\ IF "ex" \in S THEN TRUE ELSE ex = ExIdle
    /\ IF "rq" \in S THEN TRUE ELSE rq = RqIdle
    /\ IF "mr" \in S THEN TRUE ELSE mr = MrIdle
    /\ IF "sv" \in S THEN TRUE ELSE sv = SvIdle
    /\ IF "pp" \in S THEN TRUE ELSE pp = PpIdle
    /\ IF "kp" \in S THEN TRUE ELSE kp = KpIdle

\* the sites with a listing of L whose listed albums have lo..MaxImgs images
ImagesFor(l, lo) ==
    { g \in [Albums -> 0..MaxImgs] :
        \A a \in Albums : IF a \in ListedOn(l) THEN g[a] >= lo ELSE g[a] = 0 }

Sites(L, lo) ==
    UNION { { [listing |-> l, images |-> f] : f \in ImagesFor(l, lo) } : l \in L }

\* one run on a new output directory
Init ==
    /\ InitWith(Sites(ListingChoices, 0), {FALSE}, {EmptyDir})
    /\ IdleExcept({})

\* ---- crawl_albums (producer thread), lines 804-835

\* lines 808-816: fetch the current listing page with retry_request.
\* retry_request returns a response, returns None (off-domain redirect, HTTP 443
\* max_retries times) or raises out of the thread (input() at line 229 on a
\* closed stdin, int() in get_next_page); on None, get_next_page(url, None)
\* returns None and the loop ends.
CrawlFetch ==
    /\ crawl.pc = "fetch"
    /\ ~crawl_complete
    /\ \E out \in {"ok", "none", "raise"} :
           crawl' = [crawl EXCEPT
                        !.pc = CASE out = "ok" -> "put"
                                 [] out = "none" -> "set"
                                 [] OTHER -> "dead",
                        !.idx = 1]
    /\ UNCHANGED << siteVars, otherVars, files, completed_file, completed_albums,
                    failed_albums, failed_images, stats, album_queue,
                    crawl_complete, main, task, run, hist >>

\* mutant of NotYetCompleted: the filter left out
NoFilter(album_url) == TRUE

\* line 823: the filter applied when an album is put on the queue
NotYetCompleted(album_url) == album_url \notin completed_albums

\* lines 822-826: one iteration of "for album_url in albums"
CrawlPut ==
    /\ crawl.pc = "put"
    /\ crawl.idx <= Len(listing[crawl.page])
    /\ LET album_url == listing[crawl.page][crawl.idx]
           id == crawl.nput + 1
       IN  IF NotYetCompleted(album_url)
           THEN /\ album_queue' = Append(album_queue, id)
                /\ task' = [task EXCEPT ![id] =
                               [BlankTask EXCEPT !.url = album_url, !.pc = "queued"]]
                /\ crawl' = [crawl EXCEPT !.idx = @ + 1, !.nput = id,
                                          !.seen = @ \cup {album_url}]
           ELSE /\ crawl' = [crawl EXCEPT !.idx = @ + 1,
                                          !.seen = @ \cup {album_url}]
                /\ UNCHANGED << album_queue, task >>
    /\ UNCHANGED << siteVars, otherVars, files, completed_file, completed_albums,
                    failed_albums, failed_images, stats, crawl_complete,
                    main, run, hist >>

\* lines 829-832: get_next_page and the loop test
CrawlNext ==
    /\ crawl.pc = "put"
    /\ crawl.idx > Len(listing[crawl.page])
    /\ crawl' = IF crawl.page < NPages
                THEN [crawl EXCEPT !.pc = "fetch", !.page = @ + 1, !.idx = 1]
                ELSE [crawl EXCEPT !.pc = "set"]
    /\ UNCHANGED << siteVars, otherVars, files, completed_file, completed_albums,
                    failed_albums, failed_images, stats, album_queue,
                    crawl_complete, main, task, run, hist >>

\* line 835
CrawlSet ==
    /\ crawl.pc = "set"
    /\ crawl_complete' = TRUE
    /\ crawl' = [crawl EXCEPT !.pc = "done"]
    /\ UNCHANGED << siteVars, otherVars, files, completed_file, completed_albums,
                    failed_albums, failed_images, stats, album_queue,
                    main, task, run, hist >>

\* ---- download(): the consumer loop, lines 842-880

\* line 846: "while not (crawl_complete.is_set() and album_queue.empty())";
\* "and" reads is_set() first and empty() only when is_set() was True.
\* AfterIsSetOnly is the mutant "while not crawl_complete.is_set()".
AfterIsSetOnly == IF crawl_complete THEN "drain" ELSE "get"

AfterIsSet == IF crawl_complete THEN "check_empty" ELSE "get"

AfterEmpty == IF album_queue = << >> THEN "drain" ELSE "get"

\* line 846, left operand: crawl_complete.is_set()
MainCheckSet ==
    /\ main.pc = "check_set"
    /\ main' = [main EXCEPT !.pc = AfterIsSet]
    /\ UNCHANGED << siteVars, otherVars, files, completed_file, completed_albums,
                    failed_albums, failed_images, stats, album_queue,
                    crawl_complete, crawl, task, run, hist >>

\* line 846, right operand: album_queue.empty(), read after is_set() was True
MainCheckEmpty ==
    /\ main.pc = "check_empty"
    /\ main' = [main EXCEPT !.pc = AfterEmpty]
    /\ UNCHANGED << siteVars, otherVars, files, completed_file, completed_albums,
                    failed_albums, failed_images, stats, album_queue,
                    crawl_complete, crawl, task, run, hist >>

\* lines 849-859: take an item, submit download_album, count it
MainGet ==
    /\ main.pc = "get"
    /\ album_queue # << >>
    /\ LET k == Head(album_queue)
           fs == main.futures \cup {k}
       IN  /\ album_queue' = Tail(album_queue)
           /\ task' = [task EXCEPT ![k].pc = "submitted", ![k].subs = @ + 1]
           /\ stats' = [stats EXCEPT !.total_albums = @ + 1]
           /\ main' = [ pc |-> IF Cardinality(fs) >= max_workers
                               THEN "wait_one" ELSE "check_set",
                        futures |-> fs ]
    /\ UNCHANGED << siteVars, otherVars, files, completed_file, completed_albums,
                    failed_albums, failed_images, crawl_complete, crawl,
                    run, hist >>

\* lines 849, 874-876: get(timeout=5) raises queue.Empty
MainGetTimeout ==
    /\ main.pc = "get"
    /\ album_queue = << >>
    /\ main' = [main EXCEPT !.pc = "check_set"]
    /\ UNCHANGED << siteVars, otherVars, files, completed_file, completed_albums,
                    failed_albums, failed_images, stats, album_queue,
                    crawl_complete, crawl, task, run, hist >>

\* lines 859-873: wait(futures, FIRST_COMPLETED); futures becomes the not-done set
MainWaitOne ==
    /\ main.pc = "wait_one"
    /\ \E k \in main.futures : Finished(k)
    /\ main' = [ pc |-> "check_set",
                 futures |-> { k \in main.futures : ~Finished(k) } ]
    /\ UNCHANGED << siteVars, otherVars, files, completed_file, completed_albums,
                    failed_albums, failed_images, stats, album_queue,
                    crawl_complete, crawl, task, run, hist >>

\* lines 878-880 and the exit of the "with" block (shutdown(wait=True))
MainDrain ==
    /\ main.pc = "drain"
    /\ \A k \in Items : task[k].pc \in {"none", "queued", "done"}
    /\ main' = [main EXCEPT !.pc = "report"]
    /\ UNCHANGED << siteVars, otherVars, files, completed_file, completed_albums,
                    failed_albums, failed_images, stats, album_queue,
                    crawl_complete, crawl, task, run, hist >>

\* lines 882-887: save_cookies, then the report line reads the name
\* total_albums, which download() never binds: NameError ends download()
MainReport ==
    /\ main.pc = "report"
    /\ main' = [main EXCEPT !.pc = "crashed"]
    /\ UNCHANGED << siteVars, otherVars, files, completed_file, completed_albums,
                    failed_albums, failed_images, stats, album_queue,
                    crawl_complete, crawl, task, run, hist >>

\* ---- download_album, lines 706-783, run by a thread of the album pool

\* a pool thread takes the submitted call; lines 708-718
StartAlbum(k) ==
    /\ task[k].pc = "submitted"
    /\ Cardinality({ j \in Items : Running(j) }) < max_workers
    /\ task' = [task EXCEPT ![k].pc = "start",
                            ![k].atStart = (task[k].url \in completed_albums)]
    /\ UNCHANGED << siteVars, otherVars, files, completed_file, completed_albums,
                    failed_albums, failed_images, stats, album_queue,
                    crawl_complete, crawl, main, run, hist >>

\* lines 775-783: the except branch of download_album
AlbumRaises(k) ==
    /\ failed_albums' = [failed_albums EXCEPT ![task[k].url] = @ + 1]
    /\ task' = [task EXCEPT ![k].pc = "done", ![k].ret = "false",
                            ![k].raised = TRUE, ![k].fetched = TRUE]
    /\ UNCHANGED << stats >>

\* lines 721-739: get_album_images, makedirs, total_images, submit the images.
\* get_album_images (368-625) raises (retry_request raising, int() of a page
\* parameter), returns (None, []) when the first album page has no response
\* (os.path.join(save_path, None) then raises TypeError at line 724), returns
\* the images of the first page when a later page has no response ("cut"),
\* or returns all images.
GetAlbumImages(k) ==
    /\ task[k].pc = "start"
    /\ \E out \in {"raise", "none_first", "cut", "full"} :
         LET a == task[k].url
             n == IF out = "cut" THEN PageOneCount(a) ELSE images[a]
         IN  /\ (out = "cut") => HasSecondPage(a)
             /\ IF out \in {"raise", "none_first"}
                THEN AlbumRaises(k)
                ELSE /\ task' = [task EXCEPT
                               ![k].pc = "images",
                               ![k].n = n,
                               ![k].fetched = TRUE,
                               ![k].res = [i \in ImgIdx |->
                                              IF i <= n THEN "pending" ELSE "na"]]
                     /\ stats' = [stats EXCEPT !.total_images = @ + n]
                     /\ UNCHANGED failed_albums
    /\ UNCHANGED << siteVars, otherVars, files, completed_file, completed_albums,
                    failed_images, album_queue, crawl_complete, crawl, main,
                    run, hist >>

\* download_image (627-704) as one call made by a thread of the image pool:
\* the skip rule, else up to 5 fetch attempts that end with a validated file
\* renamed to the destination (True) or with no new file (False)
DownloadImage(k, i) ==
    /\ task[k].pc = "images"
    /\ task[k].res[i] = "pending"
    /\ LET p == PathOf(task[k].url, i)
       IN  IF SkipsExisting(files[p])
           THEN /\ task' = [task EXCEPT ![k].res[i] = "true"]
                /\ UNCHANGED << files, stats, hist >>
           ELSE \E ok \in BOOLEAN :
                  /\ hist' = [hist EXCEPT !.fetched = @ \cup {p}]
                  /\ IF ok
                     THEN /\ files' = [files EXCEPT ![p] = "good"]
                          /\ stats' = [stats EXCEPT !.downloaded_images = @ + 1]
                          /\ task' = [task EXCEPT ![k].res[i] = "true"]
                     ELSE /\ task' = [task EXCEPT ![k].res[i] = "false"]
                          /\ UNCHANGED << files, stats >>
    /\ UNCHANGED << siteVars, otherVars, completed_file, completed_albums, failed_albums,
                    failed_images, album_queue, crawl_complete, crawl, main, run >>

\* lines 743-761: take the next future's result, record a failed image
Collect(k) ==
    /\ task[k].pc = "images"
    /\ task[k].col < task[k].n
    /\ LET i == task[k].col + 1
       IN  /\ task[k].res[i] \in {"true", "false"}
           /\ task' = [task EXCEPT ![k].col = i]
           /\ failed_images' =
                 IF task[k].res[i] = "false"
                 THEN [failed_images EXCEPT ![PathOf(task[k].url, i)] = @ + 1]
                 ELSE failed_images
    /\ UNCHANGED << siteVars, otherVars, files, completed_file, completed_albums,
                    failed_albums, stats, album_queue, crawl_complete, crawl,
                    main, run, hist >>

\* save_completed_album, lines 128-136, on a writable output directory
save_completed_album(album_url) ==
    IF album_url \notin completed_albums
    THEN /\ completed_albums' = completed_albums \cup {album_url}
         /\ completed_file' = Append(completed_file, album_url)
    ELSE UNCHANGED << completed_albums, completed_file >>

\* mutant of AlbumResult: an album with a failed image is reported failed
AlbumResultStrict(k) ==
    IF \E i \in ImgIdx : task[k].res[i] = "false" THEN "false" ELSE "true"

\* line 774: the value download_album returns when nothing was raised
AlbumResult(k) == "true"

\* lines 763-774: every future was collected
FinishAlbum(k) ==
    /\ task[k].pc = "images"
    /\ task[k].col = task[k].n
    /\ stats' = [stats EXCEPT !.downloaded_albums = @ + 1]
    /\ save_completed_album(task[k].url)
    /\ task' = [task EXCEPT ![k].pc = "done", ![k].ret = AlbumResult(k)]
    /\ UNCHANGED << siteVars, otherVars, files, failed_albums, failed_images, album_queue,
                    crawl_complete, crawl, main, run, hist >>

\* ---- a rerun: a new process on the same output directory

\* __init__ (load_completed_albums, lines 117-126) and the start of download()
Restart(how, inFlight) ==
    /\ completed_albums' = Range(completed_file)
    /\ failed_albums' = ZeroBag(Albums)
    /\ failed_images' = ZeroBag(Paths)
    /\ stats' = ZeroStats
    /\ album_queue' = << >>
    /\ crawl_complete' = FALSE
    /\ crawl' = CrawlStart
    /\ main' = MainStart
    /\ task' = [k \in Items |-> BlankTask]
    /\ run' = "second"
    /\ hist' = [ prevEnd |-> how, fetched |-> {}, present0 |-> files,
                 completed0 |-> Range(completed_file), killed |-> inFlight ]
    /\ UNCHANGED << siteVars, otherVars, files, completed_file >>

\* the first run ended (download() left the album pool), the script is run again
Rerun ==
    /\ run = "first"
    /\ main.pc = "crashed"
    /\ Restart("completed", {})

\* the first run is killed at any point and the script is run again
InterruptAndRerun ==
    /\ run = "first"
    /\ main.pc # "crashed"
    /\ Restart("interrupted", { task[k].url : k \in { j \in Items : Running(j) } })

Next ==
    \/ CrawlFetch
    \/ CrawlPut
    \/ CrawlNext
    \/ CrawlSet
    \/ MainCheckSet
    \/ MainCheckEmpty
    \/ MainGet
    \/ MainGetTimeout
    \/ MainWaitOne
    \/ MainDrain
    \/ MainReport
    \/ \E k \in Items : StartAlbum(k)
    \/ \E k \in Items : GetAlbumImages(k)
    \/ \E k \in Items, i \in ImgIdx : DownloadImage(k, i)
    \/ \E k \in Items : Collect(k)
    \/ \E k \in Items : FinishAlbum(k)

Spec == Init /\ [][Next]_vars

\* SpecRerun: a first run and a rerun on the directory it left.  The output
\* directory of the first run is empty or holds one damaged image file.
RerunListings ==
    { << <<"a">>, <<"a">> >>,
      << <<"a">>, <<"b">> >> }

OneFileDirs ==
    { [p \in Paths |-> IF p = << "a", 1 >> THEN c ELSE "none"] :
          c \in {"none", "bad"} }

InitRerun ==
    /\ InitWith(Sites(RerunListings, 1), BOOLEAN, OneFileDirs)
    /\ IdleExcept({})

NextRerun ==
    \/ Next
    \/ Rerun
    \/ InterruptAndRerun

SpecRerun == InitRerun /\ [][NextRerun]_vars

----------------------------------------------------------------------------
\* SifangCrawler.download_image (lines 627-704) step by step: two calls with
\* the same save_path, hence the same temp_path, as made by two download_album
\* calls for one album URL (line 823 queues a URL once per listing page it is
\* on) or for two albums of one album_name (lines 724, 737-738).
\*
\* dl.dest and dl.tmp are the contents of save_path and temp_path: "none" (no
\* file), "empty", "partial", or the complete body "good" / "bad".  hnd is
\* where the file a thread holds open is now: "tmp", "dest", "orphan" (no
\* name left) or "none" (no file open).

imgFrame == << pipeNoStats, ku, st, pool, mt, pg, ex, rq, mr, sv, pp, kp >>

OpenElsewhere(t, loc) == \E u \in Callers \ {t} : dl.thr[u].hnd = loc

\* the call of thread t returns r
Returned(t, r) == [dl.thr[t] EXCEPT !.pc = "done", !.ret = r, !.hnd = "none"]

\* the except clauses of lines 685-701, and "continue": the next attempt
NextAttempt(t) ==
    [dl.thr[t] EXCEPT !.pc = "attempt", !.retry = @ + 1, !.hnd = "none"]

\* the content of a file after thread t wrote to it; last: up to the end of
\* the body.  A thread whose file was truncated by a later open() of the same
\* path no longer determines the content alone.
Written(cur, t, last) ==
    IF dl.thr[t].torn
    THEN IF cur = dl.thr[t].body THEN cur ELSE "partial"
    ELSE IF last THEN dl.thr[t].body ELSE "partial"

\* dl after thread t wrote through its handle and its state became th
WriteThrough(t, last, th) ==
    [dl EXCEPT
        !.tmp = IF dl.thr[t].hnd = "tmp" THEN Written(@, t, last) ELSE @,
        !.dest = IF dl.thr[t].hnd = "dest" THEN Written(@, t, last) ELSE @,
        !.thr[t] = th]

\* mutant of AfterResponse: a response that is no image is tried again
AfterResponseRetry(t, out) ==
    IF out \in {"error", "not_image"}
    THEN NextAttempt(t)
    ELSE [dl.thr[t] EXCEPT !.pc = "open", !.body = out]

\* lines 647-655: the request raised (an except clause follows), or the
\* content-type is no image type (return False), or the body is to be written
AfterResponse(t, out) ==
    CASE out = "error" -> NextAttempt(t)
      [] out = "not_image" -> Returned(t, "false")
      [] OTHER -> [dl.thr[t] EXCEPT !.pc = "open", !.body = out]

\* the one destination path of the two calls
ImagePath == PathOf("a", 1)

\* lines 629-638: the skip rule
ImgStart(t) ==
    /\ dl.thr[t].pc = "idle"
    /\ dl' = [dl EXCEPT !.thr[t] =
                IF SkipsExisting(dl.dest)
                THEN Returned(t, "true")
                ELSE [@ EXCEPT !.pc = "attempt"]]
    /\ UNCHANGED << imgFrame, stats >>

\* lines 642-655 and 703-704: one pass of "for retry in range(max_retries)"
\* up to the content-type test
ImgAttempt(t) ==
    /\ dl.thr[t].pc = "attempt"
    /\ IF dl.thr[t].retry >= max_retries
       THEN dl' = [dl EXCEPT !.thr[t] = Returned(t, "false")]
       ELSE \E out \in {"error", "not_image", "good", "bad"} :
               dl' = [dl EXCEPT !.thr[t] =
                        [AfterResponse(t, out) EXCEPT
                            !.rejected = (out = "not_image")]]
    /\ UNCHANGED << imgFrame, stats >>

\* lines 658-659: open(temp_path, 'wb') creates or truncates the temp file
ImgOpen(t) ==
    /\ dl.thr[t].pc = "open"
    /\ dl' = [dl EXCEPT
                !.tmp = "empty",
                !.thr = [u \in Callers |->
                    IF u = t
                    THEN [dl.thr[t] EXCEPT !.pc = "write", !.hnd = "tmp",
                                           !.torn = FALSE]
                    ELSE IF dl.thr[u].hnd = "tmp"
                         THEN [dl.thr[u] EXCEPT !.torn = TRUE]
                         ELSE dl.thr[u]]]
    /\ UNCHANGED << imgFrame, stats >>

\* lines 660-662: the first chunks are written; the stream may then fail,
\* which closes the file and reaches an except clause
ImgWrite(t) ==
    /\ dl.thr[t].pc = "write"
    /\ \E ok \in BOOLEAN :
          dl' = WriteThrough(t, FALSE,
                    IF ok THEN [dl.thr[t] EXCEPT !.pc = "close"]
                          ELSE NextAttempt(t))
    /\ UNCHANGED << imgFrame, stats >>

\* lines 660-662: the last chunk is written and the file closed
ImgClose(t) ==
    /\ dl.thr[t].pc = "close"
    /\ dl' = WriteThrough(t, TRUE,
                 [dl.thr[t] EXCEPT !.pc = "validate", !.hnd = "none"])
    /\ UNCHANGED << imgFrame, stats >>

\* line 665: is_image_corrupted(temp_path); a missing file counts as corrupted
ImgValidate(t) ==
    /\ dl.thr[t].pc = "validate"
    /\ dl' = [dl EXCEPT !.thr[t].pc =
                IF is_image_corrupted(dl.tmp) THEN "unlink" ELSE "replace"]
    /\ UNCHANGED << imgFrame, stats >>

\* os.unlink / os.replace raise FileNotFoundError without the temp file and,
\* outside POSIX, PermissionError while another thread holds a file open
CannotMove(t, locs) ==
    \/ dl.tmp = "none"
    \/ ~dl.posix /\ \E loc \in locs : OpenElsewhere(t, loc)

\* where the open files are after a change of names
Renamed(thr, t, th, from, to) ==
    [u \in Callers |->
        IF u = t THEN th
        ELSE IF thr[u].hnd = from THEN [thr[u] EXCEPT !.hnd = to]
        ELSE IF thr[u].hnd = to THEN [thr[u] EXCEPT !.hnd = "orphan"]
        ELSE thr[u]]

\* lines 666-670: os.unlink(temp_path), then the next attempt
ImgUnlink(t) ==
    /\ dl.thr[t].pc = "unlink"
    /\ IF CannotMove(t, {"tmp"})
       THEN dl' = [dl EXCEPT !.thr[t] = NextAttempt(t)]
       ELSE dl' = [dl EXCEPT
                     !.tmp = "none",
                     !.thr = Renamed(dl.thr, t, NextAttempt(t), "tmp", "orphan")]
    /\ UNCHANGED << imgFrame, stats >>

\* lines 673-681: os.replace(temp_path, save_path), the counter, return True
ImgReplace(t) ==
    /\ dl.thr[t].pc = "replace"
    /\ IF CannotMove(t, {"tmp", "dest"})
       THEN /\ dl' = [dl EXCEPT !.thr[t] = NextAttempt(t)]
            /\ UNCHANGED stats
       ELSE /\ dl' = [dl EXCEPT
                        !.dest = dl.tmp,
                        !.tmp = "none",
                        !.thr = Renamed(dl.thr, t, Returned(t, "true"), "tmp", "dest")]
            /\ stats' = [stats EXCEPT !.downloaded_images = @ + 1]
    /\ UNCHANGED imgFrame

\* download_album, lines 743-753: the result of the call is taken and a
\* False result is appended to failed_images
ImgCollect(t) ==
    /\ dl.thr[t].pc = "done"
    /\ dl' = [dl EXCEPT !.thr[t].pc = "collected"]
    /\ failed_images' =
          IF dl.thr[t].ret = "false"
          THEN [failed_images EXCEPT ![ImagePath] = @ + 1]
          ELSE failed_images
    /\ UNCHANGED << listing, images, verify, files, completed_file,
                    completed_albums, failed_albums, album_queue,
                    crawl_complete, crawl, main, task, run, hist, stats,
                    ku, st, pool, mt, pg, ex, rq, mr, sv, pp, kp >>

OneImageSite == [listing |-> << <<"a">>, <<"a">> >>, images |-> [a |-> 1, b |-> 0]]

InitImage ==
    /\ InitWith({OneImageSite}, BOOLEAN, {EmptyDir})
    /\ dl \in { [DlIdle EXCEPT !.posix = b] : b \in BOOLEAN }
    /\ IdleExcept({"dl"})

NextImage ==
    \E t \in Callers :
        \/ ImgStart(t)
        \/ ImgAttempt(t)
        \/ ImgOpen(t)
        \/ ImgWrite(t)
        \/ ImgClose(t)
        \/ ImgValidate(t)
        \/ ImgUnlink(t)
        \/ ImgReplace(t)
        \/ ImgCollect(t)

SpecImage == InitImage /\ [][NextImage]_vars

----------------------------------------------------------------------------
\* ku1372: download_album_wrapper (lines 437-598) for one album, the
\* extraction step of main() (lines 660-670), and a second run of the script
\* on the same output directory.
\*
\* ku.zip is the content of save_path, the '.zip' destination: "none" (no
\* file), "empty", "partial" (an incomplete archive of more than 1024 bytes),
\* or what a finished stream left: "full" (the archive), "short" (the archive
\* cut by more than 1024 bytes), "html" (an error page), "small" (under 1024
\* bytes).

\* line 468
ku_max_retries == 5

kuFrame == << pipeVars, dl, st, pool, mt, pg, ex, rq, mr, sv, pp, kp >>

\* os.path.getsize(save_path) > 1024, lines 453 and 549
Over1K(content) == content \in {"partial", "full", "short", "html"}

\* the wrapper returns r
KuReturn(r) == [ku EXCEPT !.pc = "done", !.ret = r]

\* mutant of KuRemoveAndRetry: the file is left where it is
KuRetryKeepsFile == [ku EXCEPT !.retry_count = @ + 1, !.pc = "loop"]

\* a validation failed: os.remove(save_path), retry_count += 1, continue
KuRemoveAndRetry ==
    [ku EXCEPT !.zip = "none", !.retry_count = @ + 1, !.pc = "loop"]

\* lines 446-464: the skip rule
KuSkipRule ==
    /\ ku.pc = "idle"
    /\ ku' = IF ku.zip = "none" THEN [ku EXCEPT !.pc = "loop"]
             ELSE IF ~ku.verify \/ Over1K(ku.zip)
             THEN [KuReturn("true") EXCEPT
                      !.skipped2 = IF ku.run = 2 THEN ku.zip ELSE @]
             ELSE [ku EXCEPT !.zip = "none", !.pc = "loop"]
    /\ UNCHANGED kuFrame

\* lines 470-486 and 594-595: the loop test, get_download_link and the request
KuRequest ==
    /\ ku.pc = "loop"
    /\ IF ku.retry_count >= ku_max_retries
       THEN ku' = KuReturn("false")
       ELSE \E out \in {"no_link", "raise", "ok"} :
               ku' = CASE out = "no_link" -> KuReturn("false")
                       [] out = "raise" ->
                            [ku EXCEPT !.pc = "except", !.failedAt = "request",
                                       !.requests2 = IF ku.run = 2 THEN 1 ELSE @]
                       [] OTHER ->
                            [ku EXCEPT !.pc = "open",
                                       !.requests2 = IF ku.run = 2 THEN 1 ELSE @]
    /\ UNCHANGED kuFrame

\* line 493: open(save_path, 'wb') creates the destination file
KuOpen ==
    /\ ku.pc = "open"
    /\ ku' = [ku EXCEPT !.zip = "empty", !.pc = "stream"]
    /\ UNCHANGED kuFrame

\* lines 494-496: chunks of the archive are written to the destination
KuStream ==
    /\ ku.pc = "stream"
    /\ ku' = [ku EXCEPT !.zip = "partial", !.pc = "streaming"]
    /\ UNCHANGED kuFrame

\* lines 494-517: the stream fails, or ends and leaves the body it delivered
KuStreamEnd ==
    /\ ku.pc = "streaming"
    /\ \E out \in {"raise", "full", "short", "html", "small"} :
          ku' = IF out = "raise"
                THEN [ku EXCEPT !.pc = "except", !.failedAt = "stream"]
                ELSE [ku EXCEPT !.zip = out, !.pc = "validate"]
    /\ UNCHANGED kuFrame

\* lines 576-592: the except clauses remove the file and count a retry
KuExcept ==
    /\ ku.pc = "except"
    /\ ku' = [KuRemoveAndRetry EXCEPT !.failedAt = "none"]
    /\ UNCHANGED kuFrame

\* lines 525-574: HTML marker, size, content-length (known only when the
\* response announced one: ku.announced, read at line 493), then
\* thread_success_count += 1 and return True
KuValidate ==
    /\ ku.pc = "validate"
    /\ \E announced \in BOOLEAN :
          ku' = IF \/ ku.zip = "html"
                   \/ ~Over1K(ku.zip)
                   \/ announced /\ ku.zip = "short"
                THEN KuRemoveAndRetry
                ELSE [KuReturn("true") EXCEPT
                         !.got1 = IF ku.run = 1 THEN TRUE ELSE @,
                         !.announced = announced]
    /\ UNCHANGED kuFrame

\* extract_zip, lines 272-286
extract_zip(k, delete_after) ==
    IF k.zip = "full"
    THEN [k EXCEPT !.extracted = TRUE,
                   !.zip = IF delete_after THEN "none" ELSE @]
    ELSE k

\* main(), lines 660-670: the extraction step over the '.zip' files
KuExtract ==
    /\ ku.pc = "done"
    /\ ku' = [(IF ku.should_extract /\ ku.zip # "none"
               THEN extract_zip(ku, ku.delete_after)
               ELSE ku) EXCEPT !.pc = "end"]
    /\ UNCHANGED kuFrame

\* the script is started again with the same options on the same directory
KuRestart(how) ==
    [ku EXCEPT !.pc = "idle", !.retry_count = 0, !.ret = "none",
               !.failedAt = "none", !.run = 2, !.prevEnd = how,
               !.announced = FALSE]

KuRerun ==
    /\ ku.run = 1 /\ ku.pc = "end"
    /\ ku' = KuRestart("completed")
    /\ UNCHANGED kuFrame

\* the first run is killed while the wrapper is running
KuInterrupt ==
    /\ ku.run = 1 /\ ku.pc \notin {"idle", "done", "end"}
    /\ ku' = KuRestart("interrupted")
    /\ UNCHANGED kuFrame

\* lines 316-322: delete_after can be chosen only with should_extract
KuOptions == { <<FALSE, FALSE>>, <<TRUE, FALSE>>, <<TRUE, TRUE>> }

InitKu ==
    /\ InitWith({OneImageSite}, {FALSE}, {EmptyDir})
    /\ ku \in { KuStart(v, o[1], o[2]) : v \in BOOLEAN, o \in KuOptions }
    /\ IdleExcept({"ku"})

NextKu ==
    \/ KuSkipRule
    \/ KuRequest
    \/ KuOpen
    \/ KuStream
    \/ KuStreamEnd
    \/ KuExcept
    \/ KuValidate
    \/ KuExtract
    \/ KuRerun
    \/ KuInterrupt

SpecKu == InitKu /\ [][NextKu]_vars

----------------------------------------------------------------------------
\* The counters of self.stats as the pool threads update them.  Every caller
\* writes  self.update_stats(key, self.stats[key] + n)  (lines 679, 728, 764):
\* the argument is computed from the counter before update_stats is entered,
\* and update_stats (lines 138-141) takes stats_lock only to store it.

statsFrame == << pipeNoStats, dl, ku, pool, mt, pg, ex, rq, mr, sv, pp, kp >>

\* the amounts a caller adds: len(image_links) to total_images, else 1
Increments(key) == IF key = "total_images" THEN 1..MaxImgs ELSE {1}

\* the caller evaluates the argument  self.stats[key] + n
StatsRead(t) ==
    /\ st.thr[t].pc = "idle"
    /\ st.thr[t].left > 0
    /\ \E key \in CounterKeys : \E n \in Increments(key) :
          st' = [st EXCEPT
                   !.thr[t] = [@ EXCEPT !.pc = "call", !.key = key,
                                        !.value = stats[key] + n],
                   !.expected[key] = @ + n]
    /\ UNCHANGED << statsFrame, stats >>

\* update_stats, line 140: with self.stats_lock
StatsAcquire(t) ==
    /\ st.thr[t].pc = "call"
    /\ st.lock = 0
    /\ st' = [st EXCEPT !.lock = t, !.thr[t].pc = "locked"]
    /\ UNCHANGED << statsFrame, stats >>

\* update_stats, line 141: self.stats[key] = value, and the lock is released
StatsStore(t) ==
    /\ st.thr[t].pc = "locked"
    /\ stats' = [stats EXCEPT ![st.thr[t].key] = st.thr[t].value]
    /\ st' = [st EXCEPT !.lock = 0,
                        !.thr[t] = [@ EXCEPT !.pc = "idle", !.left = @ - 1]]
    /\ UNCHANGED statsFrame

InitStats ==
    /\ InitWith({OneImageSite}, {FALSE}, {EmptyDir})
    /\ st = StStart(MaxUpdates)
    /\ IdleExcept({"st"})

NextStats ==
    \E t \in Workers :
        \/ StatsRead(t)
        \/ StatsAcquire(t)
        \/ StatsStore(t)

SpecStats == InitStats /\ [][NextStats]_vars

----------------------------------------------------------------------------
\* The two thread pools of SifangCrawler: download() runs download_album
\* calls in ThreadPoolExecutor(max_workers) (line 841), each download_album
\* runs its download_image calls in ThreadPoolExecutor(img_max_workers)
\* (line 731), takes their results in submission order (lines 742-743) and
\* counts the True ones in downloaded_images (line 745).
\*
\* A call of a pool is "queued" until a pool thread takes it, in submission
\* order, then "running", then "true" / "false" (its result), then
\* "collected".  trues and ok200 count the download_image calls of an album
\* that returned True, and that received a response with status 200 and an
\* image content-type.

poolFrame == << pipeVars, dl, ku, st, mt, pg, ex, rq, mr, sv, pp, kp >>

AlbumsInPool == { k \in DOMAIN pool : pool[k].pc = "running" }

InFlight(k) == { i \in 1..PoolImgs : pool[k].call[i] = "running" }

\* the download_image calls of album k that a pool thread has started
Attempted(k) == { i \in 1..PoolImgs : pool[k].call[i] \notin {"na", "queued"} }

\* mutant of HasIdleThread: a pool that starts every submitted call at once
AlwaysIdleThread(busy, size) == TRUE

\* a ThreadPoolExecutor of the given size has a thread free
HasIdleThread(busy, size) == busy < size

\* mutant of CountsAsDownloaded: every collected result is counted
CountsEveryResult(result) == TRUE

\* lines 745-746: a result counts as downloaded when it is True
CountsAsDownloaded(result) == result = "true"

\* a thread of the album pool takes the next submitted download_album call;
\* lines 708-739: get_album_images, then every image is submitted
PoolAlbumBegin(k) ==
    /\ pool[k].pc = "submitted"
    /\ \A j \in 1..(k - 1) : pool[j].pc # "submitted"
    /\ HasIdleThread(Cardinality(AlbumsInPool), max_workers)
    /\ \E n \in 0..PoolImgs :
          pool' = [pool EXCEPT ![k] =
              [@ EXCEPT !.pc = "running", !.n = n,
                        !.call = [i \in 1..PoolImgs |->
                                     IF i <= n THEN "queued" ELSE "na"]]]
    /\ UNCHANGED poolFrame

\* a thread of the image pool takes the next submitted download_image call
PoolImageBegin(k, i) ==
    /\ pool[k].pc = "running"
    /\ pool[k].call[i] = "queued"
    /\ \A j \in 1..(i - 1) : pool[k].call[j] # "queued"
    /\ HasIdleThread(Cardinality(InFlight(k)), img_max_workers)
    /\ pool' = [pool EXCEPT ![k].call[i] = "running"]
    /\ UNCHANGED poolFrame

\* download_image (lines 627-704) returns: the file was there ("skip"), a
\* fetched image was validated and renamed ("got"), every image response was
\* corrupted or failed while being written ("bad200"), or no attempt
\* received an image response ("fail")
PoolImageEnd(k, i) ==
    /\ pool[k].call[i] = "running"
    /\ \E out \in {"skip", "got", "bad200", "fail"} :
          pool' = [pool EXCEPT
              ![k].call[i] = IF out \in {"skip", "got"} THEN "true" ELSE "false",
              ![k].trues = IF out \in {"skip", "got"} THEN @ + 1 ELSE @,
              ![k].ok200 = IF out \in {"got", "bad200"} THEN @ + 1 ELSE @]
    /\ UNCHANGED poolFrame

\* lines 742-761: future.result() of the next future in submission order
PoolCollect(k) ==
    /\ pool[k].pc = "running"
    /\ pool[k].col < pool[k].n
    /\ LET i == pool[k].col + 1
       IN  /\ pool[k].call[i] \in {"true", "false"}
           /\ pool' = [pool EXCEPT
                 ![k].col = i,
                 ![k].call[i] = "collected",
                 ![k].downloaded_images =
                     IF CountsAsDownloaded(pool[k].call[i]) THEN @ + 1 ELSE @]
    /\ UNCHANGED poolFrame

\* lines 763-774: the image pool is left, the count is reported (line 766),
\* True is returned and the locals of the call are gone
PoolAlbumEnd(k) ==
    /\ pool[k].pc = "running"
    /\ pool[k].col = pool[k].n
    /\ pool' = [pool EXCEPT ![k] = [PoolCall EXCEPT !.pc = "done", !.ret = "true"]]
    /\ UNCHANGED poolFrame

InitPool ==
    /\ InitWith({OneImageSite}, {FALSE}, {EmptyDir})
    /\ pool = PoolStart(PoolAlbums)
    /\ IdleExcept({"pool"})

NextPool ==
    \E k \in 1..PoolAlbums :
        \/ PoolAlbumBegin(k)
        \/ PoolCollect(k)
        \/ PoolAlbumEnd(k)
        \/ \E i \in 1..PoolImgs : PoolImageBegin(k, i) \/ PoolImageEnd(k, i)

\* pool threads that can run do run, and every download_image call returns
\* (at most 5 attempts, each with a request timeout)
SpecPool == InitPool /\ [][NextPool]_vars /\ WF_vars(NextPool)

----------------------------------------------------------------------------
\* MeituSpider._download_image (lines 163-231), the calls that
\* _download_album (lines 254-259) submits for the images of one album, each
\* with its own save_path.  File contents are as in download_image above.

mtFrame == << pipeVars, dl, ku, st, pool, pg, ex, rq, mr, sv, pp, kp >>

\* lines 164-166: an existing save_path is skipped, whatever self.verify is
MtSkipsExisting(content) == content # "none"

\* _validate_image, lines 155-161
validate_image(content) == content = "good"

\* the call returns r; a False result is appended to self.failed_images
MtReturn(c, r) ==
    [mt EXCEPT !.call[c].pc = "done", !.call[c].ret = r,
               !.failed_images = IF r = "false" THEN @ + 1 ELSE @]

\* lines 164-166
MtSkipRule(c) ==
    /\ mt.call[c].pc = "idle"
    /\ mt' = IF MtSkipsExisting(mt.call[c].dest)
             THEN MtReturn(c, "true")
             ELSE [mt EXCEPT !.call[c].pc = "request"]
    /\ UNCHANGED mtFrame

\* lines 171-182: _get_response gave up (None), or the content-type is no
\* image type, or the body is to be written
MtRequest(c) ==
    /\ mt.call[c].pc = "request"
    /\ \E out \in {"none", "not_image", "good", "bad"} :
          mt' = [(IF out \in {"none", "not_image"}
                  THEN MtReturn(c, "false")
                  ELSE [mt EXCEPT !.call[c].pc = "write", !.call[c].body = out])
                 EXCEPT !.call[c].fetched = TRUE,
                        !.call[c].rejected = (out = "not_image")]
    /\ UNCHANGED mtFrame

\* lines 191-205: the body is written to temp_path; a failed write returns
\* False and leaves what was written
MtWrite(c) ==
    /\ mt.call[c].pc = "write"
    /\ \E ok \in BOOLEAN :
          mt' = IF ok
                THEN [mt EXCEPT !.call[c].pc = "verify",
                                !.call[c].tmp = mt.call[c].body]
                ELSE [MtReturn(c, "false") EXCEPT !.call[c].tmp = "partial"]
    /\ UNCHANGED mtFrame

\* lines 207-222: with self.verify the temp file is validated, and removed
\* when it is corrupted
MtVerify(c) ==
    /\ mt.call[c].pc = "verify"
    /\ mt' = IF mt.verify /\ ~validate_image(mt.call[c].tmp)
             THEN [MtReturn(c, "false") EXCEPT !.call[c].tmp = "none"]
             ELSE [mt EXCEPT !.call[c].pc = "rename"]
    /\ UNCHANGED mtFrame

\* lines 224-231: os.rename(temp_path, save_path); if it raises, the temp
\* file is removed
MtRename(c) ==
    /\ mt.call[c].pc = "rename"
    /\ \E ok \in BOOLEAN :
          mt' = IF ok
                THEN [MtReturn(c, "true") EXCEPT
                         !.call[c].dest = mt.call[c].tmp,
                         !.call[c].tmp = "none"]
                ELSE [MtReturn(c, "false") EXCEPT !.call[c].tmp = "none"]
    /\ UNCHANGED mtFrame

InitMeitu ==
    /\ InitWith({OneImageSite}, {FALSE}, {EmptyDir})
    /\ mt \in { MtStart(v, d) :
                  v \in BOOLEAN, d \in [MtCalls -> {"none", "good", "bad"}] }
    /\ IdleExcept({"mt"})

NextMeitu ==
    \E c \in MtCalls :
        \/ MtSkipRule(c)
        \/ MtRequest(c)
        \/ MtWrite(c)
        \/ MtVerify(c)
        \/ MtRename(c)

SpecMeitu == InitMeitu /\ [][NextMeitu]_vars

----------------------------------------------------------------------------
\* Claims checked under Spec (one run of the SifangCrawler pipeline)

InRecord(a) == a \in completed_albums \/ a \in Range(completed_file)

\* C1: an album URL is in the ProgressRecord only if every image of the album
\* was downloaded and validated: download_album records no album with a
\* failed image or with an image list cut short by a failed album-page fetch.
C1_RecordedOnlyWithAllImages ==
    \A a \in Albums :
        InRecord(a) => \A i \in 1..images[a] : files[PathOf(a, i)] = "good"

\* C1, reached: an album recorded with all its images on disk
C1_Witness ==
    \E a \in Albums :
        /\ InRecord(a)
        /\ images[a] = MaxImgs
        /\ \A i \in 1..images[a] : files[PathOf(a, i)] = "good"

\* C7: a download_album call that starts when its album URL is already in the
\* ProgressRecord returns without fetching the album page or any image.
C7_SkipsCompletedAlbum ==
    \A k \in Items :
        task[k].atStart => (~task[k].fetched /\ task[k].n = 0)

\* C7, reached: a call started for an album that is already recorded
C7_Witness == \E k \in Items : task[k].atStart /\ Finished(k)

\* C8: an album whose image extraction yields zero images is recorded in the
\* failed-album list and is not added to the ProgressRecord.
C8_EmptyAlbumIsFailed ==
    \A k \in Items :
        (Finished(k) /\ task[k].n = 0) =>
            (failed_albums[task[k].url] >= 1 /\ ~InRecord(task[k].url))

\* C8, reached: the first album page has no response, the album is recorded failed
C8_Witness ==
    \E k \in Items :
        /\ Finished(k) /\ task[k].n = 0 /\ task[k].raised
        /\ failed_albums[task[k].url] >= 1 /\ ~InRecord(task[k].url)

\* the collected results of download_image that were False, per path
FalseResults(p) ==
    Cardinality({ k \in Items :
        \E i \in ImgIdx : /\ PathOf(task[k].url, i) = p
                          /\ i <= task[k].col
                          /\ task[k].res[i] = "false" })

\* C9: download_album returns True exactly when it completes without raising,
\* whatever the image results; every False image result adds exactly one entry
\* to failed_images; the album is added to failed_albums, and False returned,
\* only when an exception was raised.
C9_AlbumResult ==
    /\ \A k \in Items :
          Finished(k) =>
              /\ task[k].ret \in {"true", "false"}
              /\ (task[k].ret = "true") <=> ~task[k].raised
              /\ (task[k].ret = "true") => (task[k].col = task[k].n)
    /\ \A p \in Paths : failed_images[p] = FalseResults(p)
    /\ \A a \in Albums :
          failed_albums[a] =
              Cardinality({ k \in Items : task[k].url = a /\ task[k].raised })

\* C9, reached: an album returned True although one of its images failed
C9_Witness ==
    \E k \in Items, i \in ImgIdx :
        /\ Finished(k) /\ task[k].ret = "true"
        /\ task[k].res[i] = "false"
        /\ failed_images[PathOf(task[k].url, i)] = 1

\* C10: the consumer loop exits only when the producer has finished and the
\* queue is empty, and every item the producer put on the queue was taken and
\* submitted to download_album exactly once before download() leaves the pool.
C10_NoItemLost ==
    /\ (main.pc \in {"drain", "report", "crashed"}) =>
           (crawl_complete /\ crawl.pc = "done" /\ album_queue = << >>)
    /\ \A k \in Items : task[k].subs <= 1
    /\ (main.pc \in {"report", "crashed"}) =>
           \A k \in 1..crawl.nput : task[k].subs = 1 /\ Finished(k)

\* C10, reached: download() left the pool after the producer queued every
\* listed album, the last one on the last listing page
C10_Witness ==
    /\ main.pc = "report"
    /\ crawl.nput = MaxItems
    /\ \A k \in Items : task[k].subs = 1

----------------------------------------------------------------------------
\* Claims checked under SpecRerun (a first run, then a rerun)

\* an image file that the skip rule of download_image must not fetch again
NeedsNoFetch(content) == content = "good" \/ (content = "bad" /\ ~verify)

\* C4 as stated: a second run after a completed first run issues zero image
\* download requests.
C4_ZeroFetchesOnRerun ==
    (run = "second" /\ hist.prevEnd = "completed") => hist.fetched = {}

\* C4 as amended: a second run after a completed first run hands no album of
\* the ProgressRecord to download_album and fetches no image whose file is
\* present (and, with --verify, intact).
C4_NoRedundantFetch ==
    (run = "second" /\ hist.prevEnd = "completed") =>
        /\ \A k \in Items : task[k].url \notin hist.completed0
        /\ \A p \in hist.fetched : ~NeedsNoFetch(hist.present0[p])

\* C4, reached: the second run ended, with a recorded album and a present file
C4_Witness ==
    /\ run = "second" /\ hist.prevEnd = "completed"
    /\ main.pc = "crashed"
    /\ hist.completed0 # {}
    /\ \E p \in Paths : hist.present0[p] = "good"

----------------------------------------------------------------------------
\* Claims checked under SpecImage (two download_image calls on one path)

\* C2: for a destination path that did not exist when the calls started, the
\* file at the destination path is never incomplete: its content was written
\* in full to the temp path before the rename, and a failed fetch, write or
\* validation leaves no partial file there.
C2_AtomicWrite == dl.dest \in {"none", "good", "bad"}

\* C2, reached: a call renamed a fully written, validated temp file
C2_Witness ==
    \E t \in Callers :
        dl.thr[t].ret = "true" /\ dl.thr[t].retry > 0 /\ dl.dest = "good"

----------------------------------------------------------------------------
\* Claims checked under SpecKu (the ku1372 archive download)

\* C3: a failure in the middle of streaming the archive leaves no file at the
\* destination '.zip' path, and a second run after an interrupted one skips
\* no incomplete archive as already present.
C3_NoPartialArchive ==
    /\ (ku.pc = "except" /\ ku.failedAt = "stream") => ku.zip = "none"
    /\ (ku.run = 2 /\ ku.prevEnd = "interrupted") =>
           ku.skipped2 \notin {"empty", "partial"}

\* C3, reached: the except clause removed what a failed stream left
C3_Witness ==
    /\ ku.pc = "loop" /\ ku.retry_count > 0 /\ ku.zip = "none"

\* C5: after a first run that downloaded the archive and went through its
\* extraction step, with any extract / delete-after-extract options, the
\* second run makes no download request for the album.
C5_SecondRunSkips ==
    (ku.run = 2 /\ ku.prevEnd = "completed" /\ ku.got1) => ku.requests2 = 0

\* C5, reached: the second run skipped the archive the first run kept
C5_Witness ==
    /\ ku.run = 2 /\ ku.prevEnd = "completed" /\ ku.got1
    /\ ku.pc = "done" /\ ku.skipped2 = "full" /\ ku.extracted

----------------------------------------------------------------------------
\* Further claims checked under Spec

\* C11: on every run in which the album pool drains, download() goes on to
\* its end-of-run step (the report of the counts, the retry offer or
\* failed_items.log): it does not end with an exception before that step.
C11_EndOfRunStepReached == main.pc # "crashed"

\* C11, reached: the album pool has drained with a failure recorded
C11_Witness ==
    /\ main.pc = "report"
    /\ \E a \in Albums : failed_albums[a] > 0
    /\ \E p \in Paths : failed_images[p] > 0

\* C13: no two download_album calls have a download_image call for the same
\* destination path in their image pools at the same time.
C13_NoSharedPath ==
    \A k1, k2 \in Items :
        (k1 # k2 /\ task[k1].pc = "images" /\ task[k2].pc = "images") =>
            \A i \in ImgIdx :
                ~(/\ task[k1].res[i] = "pending"
                  /\ task[k2].res[i] = "pending"
                  /\ PathOf(task[k1].url, i) = PathOf(task[k2].url, i))

\* C13, reached: two albums are in the album pool at the same time, each
\* with a download_image call submitted
C13_Witness ==
    \E k1, k2 \in Items :
        /\ task[k1].url # task[k2].url
        /\ task[k1].pc = "images" /\ task[k2].pc = "images"
        /\ task[k1].res[1] = "pending" /\ task[k2].res[1] = "pending"

----------------------------------------------------------------------------
\* Claims checked under SpecStats (concurrent counter updates)

AllUpdatesDone ==
    \A t \in Workers : st.thr[t].pc = "idle" /\ st.thr[t].left = 0

\* C12: no increment of a shared counter is lost: after all workers have
\* finished, every counter equals the sum of the amounts that were added.
C12_NoLostUpdate ==
    AllUpdatesDone => \A key \in CounterKeys : stats[key] = st.expected[key]

\* C12, reached: all workers have finished and two of them updated one counter
C12_Witness ==
    /\ AllUpdatesDone
    /\ stats["downloaded_images"] = 2 * MaxUpdates
    /\ st.expected["downloaded_images"] = 2 * MaxUpdates

----------------------------------------------------------------------------
\* Claims checked under SpecPool (the album pool and the image pools)

\* download_album call k has taken every result of its image pool
AllCollected(k) == pool[k].pc = "running" /\ pool[k].col = pool[k].n

\* C14: at no time are more than img_max_workers download_image calls of one
\* album in flight, nor more than max_workers albums being processed; all n image
\* URLs of an album have been attempted when its results are collected, which
\* eventually happens for every submitted album.
C14_PoolBounds ==
    /\ [](\A k \in 1..PoolAlbums : Cardinality(InFlight(k)) <= img_max_workers)
    /\ [](Cardinality(AlbumsInPool) <= max_workers)
    /\ [](\A k \in 1..PoolAlbums :
             AllCollected(k) => Attempted(k) = 1..pool[k].n)
    /\ <>(\A k \in 1..PoolAlbums : pool[k].pc = "done")

\* C14, reached: both pools are full, with a call waiting in each
C14_Witness ==
    /\ Cardinality(AlbumsInPool) = max_workers
    /\ \E k \in 1..PoolAlbums : pool[k].pc = "submitted"
    /\ \E k \in AlbumsInPool :
          /\ Cardinality(InFlight(k)) = img_max_workers
          /\ \E i \in 1..PoolImgs : pool[k].call[i] = "queued"

\* C15 as stated: the success count of a processed album equals the number of
\* its image URLs whose fetch returned status 200 with an image content-type.
C15_CountIsImageResponses ==
    \A k \in 1..PoolAlbums :
        AllCollected(k) => pool[k].downloaded_images = pool[k].ok200

\* C15 as amended: the success count of a processed album equals the number
\* of its download_image calls that returned True.
C15_CountIsTrueResults ==
    \A k \in 1..PoolAlbums :
        /\ pool[k].downloaded_images <= pool[k].trues
        /\ AllCollected(k) => pool[k].downloaded_images = pool[k].trues

\* C15, reached: an album of three images is processed; one file was there,
\* one was fetched, one image response was corrupted
C15_Witness ==
    \E k \in 1..PoolAlbums :
        /\ AllCollected(k) /\ pool[k].n = PoolImgs
        /\ pool[k].downloaded_images = 2
        /\ pool[k].ok200 = 2
        /\ pool[k].trues = 2

----------------------------------------------------------------------------
\* Further claims checked under SpecImage

\* C16: a download_image call whose response has a content-type that is no
\* image type makes no further attempt and returns False; the step that
\* receives the response writes nothing to the destination path or to the
\* temp path; and every call that returned False has exactly one entry in
\* failed_images once download_album has taken its result.
C16_NotImageRejected ==
    /\ [](\A t \in Callers :
             dl.thr[t].rejected =>
                 (dl.thr[t].pc \in {"done", "collected"} /\ dl.thr[t].ret = "false"))
    /\ [](failed_images[ImagePath] =
             Cardinality({ t \in Callers :
                 dl.thr[t].pc = "collected" /\ dl.thr[t].ret = "false" }))
    /\ [][\A t \in Callers :
             (dl'.thr[t].rejected /\ ~dl.thr[t].rejected) =>
                 (dl'.dest = dl.dest /\ dl'.tmp = dl.tmp)]_vars

\* C16, reached: a call was rejected for its content-type on a later attempt
\* and is recorded in failed_images
C16_Witness ==
    \E t \in Callers :
        /\ dl.thr[t].rejected /\ dl.thr[t].pc = "collected"
        /\ dl.thr[t].retry > 0
        /\ failed_images[ImagePath] >= 1

----------------------------------------------------------------------------
\* Claims checked under SpecMeitu (MeituSpider._download_image)

\* C16 for MeituSpider: a call whose response is no image returns False with
\* one entry in failed_images and has written nothing.
C16_MeituRejected ==
    /\ \A c \in MtCalls :
          mt.call[c].rejected =>
              /\ mt.call[c].pc = "done" /\ mt.call[c].ret = "false"
              /\ mt.call[c].dest = "none" /\ mt.call[c].tmp = "none"
    /\ mt.failed_images =
          Cardinality({ c \in MtCalls : mt.call[c].ret = "false" })

\* C17: for a save_path that exists when the call starts: with validation
\* disabled the call returns True without a fetch; with validation enabled it
\* returns True without a fetch if the file decodes, and fetches the image
\* again if it does not.
C17_SkipRule ==
    \A c \in MtCalls :
        (mt.call[c].pc = "done" /\ mt.call[c].dest0 # "none") =>
            IF ~mt.verify \/ validate_image(mt.call[c].dest0)
            THEN mt.call[c].ret = "true" /\ ~mt.call[c].fetched
            ELSE mt.call[c].fetched

\* C17, reached: with validation enabled, a call on an intact file returned
\* True without a fetch
C17_Witness ==
    \E c \in MtCalls :
        /\ mt.verify /\ mt.call[c].dest0 = "good"
        /\ mt.call[c].pc = "done" /\ mt.call[c].ret = "true"
        /\ ~mt.call[c].fetched

(***************************************************************************)
(* SpecPages: the pagination loops.  One behaviour runs one loop on one    *)
(* site: SifangCrawler.get_all_albums or crawl_albums on a listing,        *)
(* MeituSpider.run on a listing, the per-tag page loop of the ku1372 main  *)
(* on a tag listing, or SifangCrawler.get_album_images on the pages of an  *)
(* album.  pg.visited is the sequence of the URLs requested.               *)
(***************************************************************************)
pagesFrame == << pipeVars, dl, ku, st, pool, mt, ex, rq, mr, sv, pp, kp >>

\* retry_request / get_soup on a listing page: the page's soup, or none
\* when no response came
Fetched(u, answered) ==
    IF answered /\ u \in ListingPages
    THEN [ok |-> TRUE, arrow |-> pg.site[u].arrow, nums |-> pg.site[u].nums]
    ELSE NoSoup

\* SifangCrawler.get_next_page, lines 297-366: the first anchor matching
\* arrow_patterns, else the link numbered current_page + 1; a button found
\* is followed when it stays on the site; with no button, the URL of
\* current_page + 1 is built when some link has a page number that large
get_next_page(page_url, soup) ==
    IF ~soup.ok THEN NoUrl
    ELSE LET next_button ==
                 IF soup.arrow # NoUrl THEN soup.arrow
                 ELSE IF page_url + 1 \in soup.nums THEN page_url + 1
                 ELSE NoUrl
         IN  IF next_button # NoUrl
             THEN IF next_button = Offsite THEN NoUrl ELSE next_button
             ELSE IF \E n \in soup.nums : page_url + 1 <= n
                  THEN page_url + 1
                  ELSE NoUrl

\* one turn of a listing loop of SifangCrawler: request current_url, then
\* take get_next_page of the soup, or of None when the request failed
ListingTurn(answered) ==
    LET next == get_next_page(pg.current_url, Fetched(pg.current_url, answered))
    IN  [pg EXCEPT !.visited = Append(@, pg.current_url),
                   !.unanswered = @ \/ ~answered,
                   !.current_url = next,
                   !.pc = IF next = NoUrl THEN "done" ELSE "run"]

\* SifangCrawler.get_all_albums, the loop of lines 254-279
get_all_albums ==
    /\ pg.loop = "get_all_albums" /\ pg.pc = "run"
    /\ Len(pg.visited) < MaxFetches
    /\ \E answered \in BOOLEAN : pg' = ListingTurn(answered)
    /\ UNCHANGED pagesFrame

\* crawl_albums of SifangCrawler.download, the loop of lines 808-832
crawl_albums ==
    /\ pg.loop = "crawl_albums" /\ pg.pc = "run"
    /\ Len(pg.visited) < MaxFetches
    /\ \E answered \in BOOLEAN : pg' = ListingTurn(answered)
    /\ UNCHANGED pagesFrame

\* MeituSpider._parse_albums, lines 78-121: the href of .paging-item--next,
\* or None when the request failed
parse_albums_next(soup) == IF soup.ok THEN soup.arrow ELSE NoUrl

\* one turn of the listing loop of MeituSpider.run, lines 323-344
MeituListingTurn ==
    /\ pg.loop = "run" /\ pg.pc = "run"
    /\ Len(pg.visited) < MaxFetches
    /\ pg.current_url # NoUrl /\ pg.current_url \notin pg.processed_urls
    /\ \E answered \in BOOLEAN :
        LET processed == pg.processed_urls \cup {pg.current_url}
            next_page == parse_albums_next(Fetched(pg.current_url, answered))
            follow    == next_page # NoUrl /\ next_page \notin processed
        IN  pg' = [pg EXCEPT !.processed_urls = processed,
                             !.visited = Append(@, pg.current_url),
                             !.unanswered = @ \/ ~answered,
                             !.page = IF follow THEN @ + 1 ELSE @,
                             !.current_url = IF follow THEN next_page ELSE NoUrl,
                             !.pc = IF follow THEN "run" ELSE "done"]
    /\ UNCHANGED pagesFrame

\* one turn of the per-tag page loop of the ku1372 main, lines 366-653: the
\* URL of page 1 is the tag URL, the URL of a later page is built from the
\* tag id found in the tag URL, and the loop is left when there is no tag
\* id, no response, or no next-page anchor in div.page
KuPageTurn ==
    /\ pg.loop = "main" /\ pg.pc = "run"
    /\ Len(pg.visited) < MaxFetches
    /\ IF pg.page > 1 /\ ~pg.tag_has_id
       THEN pg' = [pg EXCEPT !.pc = "done"]
       ELSE \E answered \in BOOLEAN :
            LET soup == Fetched(pg.page, answered)
                more == soup.ok /\ soup.arrow # NoUrl
            IN  pg' = [pg EXCEPT !.current_url = pg.page,
                                 !.visited = Append(@, pg.page),
                                 !.unanswered = @ \/ ~soup.ok,
                                 !.page = IF more THEN @ + 1 ELSE @,
                                 !.pc = IF more THEN "run" ELSE "done"]
    /\ UNCHANGED pagesFrame

\* get_album_images, lines 609-613: the next URL is taken when it holds the
\* site's domain and "/albums/"
IsAlbumPage(next_url) == next_url \in AlbumUrls

\* one turn of the page loop of get_album_images, lines 377-622: request
\* current_url, leave on no response; else pick the next-page button, add
\* the page's images to all_image_links and go to the button's URL
get_album_images ==
    /\ pg.loop = "get_album_images" /\ pg.pc = "run"
    /\ Len(pg.visited) < MaxFetches
    /\ \E answered \in BOOLEAN :
        LET soup == pg.site[pg.current_url]
            next_page_button ==
                IF soup.arrow # "none" THEN soup.arrow ELSE soup.numbered
            next_url ==
                IF IsAlbumPage(next_page_button) THEN next_page_button ELSE "none"
        IN  pg' = IF ~answered
                  THEN [pg EXCEPT !.visited = Append(@, pg.current_url),
                                  !.unanswered = TRUE,
                                  !.pc = "done"]
                  ELSE [pg EXCEPT !.visited = Append(@, pg.current_url),
                                  !.all_image_links = @ \cup {pg.current_url},
                                  !.current_url = next_url,
                                  !.pc = IF next_url = "none" THEN "done" ELSE "run"]
    /\ UNCHANGED pagesFrame

\* the listings a site can serve to SifangCrawler, to MeituSpider (whose
\* next link is always made a URL of the site) and to the ku1372 main
SifangListings ==
    [ListingPages -> ListingSoups(ListingPages \cup {NoUrl, Offsite},
                                  SUBSET ListingPages)]

PlainListings == [ListingPages -> ListingSoups(ListingPages \cup {NoUrl}, {{}})]

AlbumSites == [AlbumUrls -> AlbumSoups]

InitPages ==
    /\ InitWith({OneImageSite}, {FALSE}, {EmptyDir})
    /\ IdleExcept({"pg"})
    /\ \/ \E loop \in {"get_all_albums", "crawl_albums"}, site \in SifangListings :
            pg = PgStart(loop, site, 1, FALSE)
       \/ \E site \in PlainListings : pg = PgStart("run", site, 1, FALSE)
       \/ \E site \in PlainListings, id \in BOOLEAN :
            pg = PgStart("main", site, 1, id)
       \/ \E site \in AlbumSites : pg = PgStart("get_album_images", site, AlbumUrl, FALSE)

NextPages ==
    \/ get_all_albums
    \/ crawl_albums
    \/ MeituListingTurn
    \/ KuPageTurn
    \/ get_album_images

SpecPages == InitPages /\ [][NextPages]_vars

(***************************************************************************)
(* Claims checked under SpecPages                                          *)
(***************************************************************************)
\* the URLs requested so far are all different
NoRepeat(seq) ==
    \A i, j \in 1..Len(seq) : seq[i] = seq[j] => i = j

\* C18, as stated: the listing loops and the album page loop of
\* SifangCrawler never request a page URL they have already requested in the
\* run, whatever the pages of the site link to.  Violated: the loops keep
\* no set of seen URLs, so a page whose next-page anchor leads back to a
\* page already read is requested again, and the loop goes round.
C18_NoUrlFetchedTwice ==
    pg.loop \in {"get_all_albums", "crawl_albums", "get_album_images"}
        => NoRepeat(pg.visited)

\* C18, reached: crawl_albums read page 1 and page 2, and the next-page
\* anchor of page 2 sent it to page 1 again
C18_Witness ==
    /\ pg.loop = "crawl_albums"
    /\ Len(pg.visited) = 2 /\ pg.visited[1] = 1 /\ pg.visited[2] = 2
    /\ pg.current_url = 1 /\ pg.pc = "run"

\* a listing of n pages: page p < n carries a next link to page p + 1, page
\* n carries none, and the page numbers linked are those of the n pages
LinearListing(n) ==
    /\ pg.loop \in {"get_all_albums", "crawl_albums", "run", "main"}
    /\ \A p \in 1..n :
        /\ pg.site[p].arrow = (IF p < n THEN p + 1 ELSE NoUrl)
        /\ pg.site[p].nums \subseteq 1..n

\* the paginator has visited the pages 1..Len(visited) in order and, once
\* stopped, the pages 1..n
VisitsInOrder(n) ==
    /\ Len(pg.visited) <= n
    /\ \A i \in 1..Len(pg.visited) : pg.visited[i] = i
    /\ pg.pc = "done" => Len(pg.visited) = n

\* C19, as stated: on a listing of N pages linked in a line, with every
\* request answered, the listing loop of get_all_albums, of MeituSpider.run
\* and of the ku1372 main visits the pages 1, 2, .., N in order, each once,
\* and stops.  Violated by the ku1372 loop: it builds the URL of page 2 from
\* a tag id in the tag URL and leaves the loop when the URL has none.
C19_VisitsPagesInOrder ==
    \A n \in ListingPages :
        (pg.loop \in {"get_all_albums", "run", "main"}
            /\ LinearListing(n) /\ ~pg.unanswered)
        => VisitsInOrder(n)

\* C19 for the two loops that follow the next link: holds
C19_LinkFollowersVisitInOrder ==
    \A n \in ListingPages :
        (pg.loop \in {"get_all_albums", "run"}
            /\ LinearListing(n) /\ ~pg.unanswered)
        => VisitsInOrder(n)

\* C19 for the ku1372 loop on a tag URL holding a tag id: holds
C19_KuWithTagIdVisitsInOrder ==
    \A n \in ListingPages :
        (pg.loop = "main" /\ pg.tag_has_id
            /\ LinearListing(n) /\ ~pg.unanswered)
        => VisitsInOrder(n)

\* C19, reached: the ku1372 loop stopped after page 1 of a two-page listing
\* whose page 1 has a next link, every request answered
C19_Witness ==
    /\ pg.loop = "main" /\ LinearListing(2) /\ ~pg.unanswered
    /\ pg.pc = "done" /\ pg.visited = << 1 >>

\* C20, as stated: every page get_album_images requests after the first is
\* a page of the album at album_url, and all_image_links holds images of
\* pages of that album only.  Violated: the next URL is accepted when it is
\* any album URL of the site, so a matching anchor that leads to another
\* album is followed and that album's images are added.
C20_SameAlbumPages ==
    pg.loop = "get_album_images" =>
        /\ \A i \in 1..Len(pg.visited) : AlbumOf(pg.visited[i]) = AlbumOf(AlbumUrl)
        /\ \A u \in pg.all_image_links : AlbumOf(u) = AlbumOf(AlbumUrl)

\* C20, reached: get_album_images returned with images of a page of another
\* album in its list
C20_Witness ==
    /\ pg.loop = "get_album_images" /\ pg.pc = "done"
    /\ "B1" \in pg.all_image_links
    /\ ~pg.unanswered

(***************************************************************************)
(* SpecExtract: building the image list of an album.  One behaviour runs   *)
(* the img-tag loop of SifangCrawler.get_album_images on the pages of an   *)
(* album, one page a step, or MeituSpider._parse_album_images on the       *)
(* data-screenshots entries of an album page.                              *)
(***************************************************************************)
exFrame == << pipeVars, dl, ku, st, pool, mt, pg, rq, mr, sv, pp, kp >>

InSeq(x, seq) == \E i \in 1..Len(seq) : seq[i] = x

\* get_album_images, lines 470-473: obvious_ad_keywords
obvious_ad(src) == src = "ad"

\* get_album_images, the loop of lines 459-571 over img_tags: a src that is
\* no obvious ad is appended unless it is in page_images or all_image_links
RECURSIVE StrictPass(_, _, _)
StrictPass(img_tags, page_images, all) ==
    IF img_tags = << >> THEN page_images
    ELSE LET src == Head(img_tags)
         IN  StrictPass(Tail(img_tags),
                        IF ~obvious_ad(src) /\ ~InSeq(src, page_images)
                                            /\ ~InSeq(src, all)
                        THEN Append(page_images, src)
                        ELSE page_images,
                        all)

\* get_album_images, the loop of lines 577-601: the relaxed pass filters
\* other keywords, which the obvious ad passes
RECURSIVE RelaxedPass(_, _, _)
RelaxedPass(img_tags, page_images, all) ==
    IF img_tags = << >> THEN page_images
    ELSE LET src == Head(img_tags)
         IN  RelaxedPass(Tail(img_tags),
                         IF ~InSeq(src, page_images) /\ ~InSeq(src, all)
                         THEN Append(page_images, src)
                         ELSE page_images,
                         all)

\* get_album_images, lines 449-601: page_images of one page
PageImages(img_tags, all) ==
    LET strict == StrictPass(img_tags, << >>, all)
    IN  IF strict = << >> /\ img_tags # << >>
        THEN RelaxedPass(img_tags, << >>, all)
        ELSE strict

\* get_album_images reads the next page: all_image_links.extend(page_images)
ExtractPageImages ==
    /\ ex.who = "sifang" /\ ex.pc = "run"
    /\ ex' = IF ex.read = Len(ex.pages)
             THEN [ex EXCEPT !.pc = "done"]
             ELSE [ex EXCEPT !.read = @ + 1,
                             !.all_image_links =
                                 @ \o PageImages(ex.pages[ex.read + 1], @)]
    /\ UNCHANGED exFrame

\* MeituSpider._parse_album_images, lines 140-146: every non-empty entry
\* of data-screenshots is appended
RECURSIVE ScreenshotImages(_)
ScreenshotImages(entries) ==
    IF entries = << >> THEN << >>
    ELSE IF Head(entries) = "" THEN ScreenshotImages(Tail(entries))
    ELSE << Head(entries) >> \o ScreenshotImages(Tail(entries))

parse_album_images ==
    /\ ex.who = "meitu" /\ ex.pc = "run"
    /\ ex' = [ex EXCEPT !.read = 1, !.pc = "done",
                        !.all_image_links = ScreenshotImages(ex.pages[1])]
    /\ UNCHANGED exFrame

InitExtract ==
    /\ InitWith({OneImageSite}, {FALSE}, {EmptyDir})
    /\ IdleExcept({"ex"})
    /\ \/ \E pages \in SeqsUpTo(SeqsUpTo(ImgUrls, MaxTags), MaxAlbumPages) :
            ex = ExStart("sifang", pages)
       \/ \E entries \in SeqsUpTo(ImgUrls \cup {""}, MaxTags) :
            ex = ExStart("meitu", << entries >>)

NextExtract ==
    \/ ExtractPageImages
    \/ parse_album_images

SpecExtract == InitExtract /\ [][NextExtract]_vars

(***************************************************************************)
(* Claims checked under SpecExtract                                        *)
(***************************************************************************)
\* the src values read so far, in the order read
RECURSIVE Flat(_)
Flat(pages) == IF pages = << >> THEN << >> ELSE Head(pages) \o Flat(Tail(pages))

SeenSoFar == Flat(SubSeq(ex.pages, 1, ex.read))

FirstSeenAt(x, seq) == CHOOSE i \in 1..Len(seq) : seq[i] = x /\ \A j \in 1..(i - 1) : seq[j] # x

\* the list holds no URL twice and its pictures stand in first-seen order
DedupInOrder(list) ==
    /\ NoRepeat(list)
    /\ \A i, j \in 1..Len(list) :
        (i < j /\ ~obvious_ad(list[i]) /\ ~obvious_ad(list[j]))
            => FirstSeenAt(list[i], SeenSoFar) < FirstSeenAt(list[j], SeenSoFar)

\* C21, as stated: whatever the pages of an album hold, the image list
\* built for it holds no URL twice and lists the URLs in the order first
\* seen.  Violated by MeituSpider._parse_album_images, which appends every
\* entry of data-screenshots without looking at the list.
C21_NoDuplicateInOrder == DedupInOrder(ex.all_image_links)

\* C21 for SifangCrawler.get_album_images alone: holds, and every picture
\* seen is in the list
C21_SifangDedupInOrder ==
    ex.who = "sifang" =>
        /\ DedupInOrder(ex.all_image_links)
        /\ \A i \in 1..Len(SeenSoFar) :
            ~obvious_ad(SeenSoFar[i]) => InSeq(SeenSoFar[i], ex.all_image_links)

\* C21, reached: _parse_album_images returned a list holding a URL twice
C21_Witness ==
    /\ ex.who = "meitu" /\ ex.pc = "done"
    /\ ex.pages[1] = << "u1", "u2", "u1" >>
    /\ ex.all_image_links = << "u1", "u2", "u1" >>

(***************************************************************************)
(* SpecRequest: one SifangCrawler.retry_request call, a request a step.    *)
(* rq.band and rq.delay are the waits made after the last request.         *)
(***************************************************************************)
rqFrame == << pipeVars, dl, ku, st, pool, mt, pg, ex, mr, sv, pp, kp >>

Min(a, b) == IF a <= b THEN a ELSE b

\* retry_request, line 235: the exponential delay before the next try
backoff(retries, jitter) ==
    Min(base_delay * (2 ^ (retries - 1)) + jitter, max_delay)

\* retry_request, lines 196-201: status 443 waits 15-30 s, counts a retry
\* and goes back to the loop test of line 166
Status443(r) ==
    IF r.retries + 1 < rq_max_retries
    THEN [r EXCEPT !.retries = @ + 1, !.band = "15-30", !.delay = 0]
    ELSE [r EXCEPT !.retries = @ + 1, !.band = "15-30", !.delay = 0,
                   !.pc = "done", !.ret = "none"]

\* a 2xx response whose final URL is taken for a retryable failure
RedirectedRetry(r) ==
    [r EXCEPT !.retries = @ + 1, !.band = "none", !.delay = 0]

\* retry_request, lines 206-208: the final URL is outside the site
Redirected(r) ==
    [r EXCEPT !.pc = "done", !.ret = "none", !.band = "none", !.delay = 0]

\* retry_request, lines 216-237: the except branch
Excepted(r, reset, jitter) ==
    LET band == IF reset THEN "20-40" ELSE "none"
    IN  IF r.retries + 1 >= rq_max_retries
        THEN [r EXCEPT !.retries = @ + 1, !.band = band, !.delay = 0,
                       !.pc = "confirm"]
        ELSE [r EXCEPT !.retries = @ + 1, !.band = band,
                       !.delay = backoff(r.retries + 1, jitter)]

\* one turn of the loop of retry_request, lines 166-237
RqRequest ==
    /\ rq.pc = "request" /\ rq.sent < MaxRequests
    /\ \E out \in Outcomes, jitter \in Jitter :
        LET r == [rq EXCEPT !.sent = @ + 1, !.last = out]
        IN  rq' = CASE out = "ok" ->
                         [r EXCEPT !.pc = "done", !.ret = "response",
                                   !.band = "none", !.delay = 0]
                    [] out = "offsite" -> Redirected(r)
                    [] out = "443" -> Status443(r)
                    [] OTHER -> Excepted(r, out = "reset", jitter)
    /\ UNCHANGED rqFrame

\* retry_request, lines 228-230: input() returns, the counter starts again
RqConfirm ==
    /\ rq.pc = "confirm"
    /\ rq' = [rq EXCEPT !.pc = "request", !.retries = 0, !.confirms = @ + 1]
    /\ UNCHANGED rqFrame

InitRequest ==
    /\ InitWith({OneImageSite}, {FALSE}, {EmptyDir})
    /\ IdleExcept({"rq"})
    /\ rq = RqStart

NextRequest ==
    \/ RqRequest
    \/ RqConfirm

SpecRequest == InitRequest /\ [][NextRequest]_vars

(***************************************************************************)
(* Claims checked under SpecRequest                                        *)
(***************************************************************************)
\* C22, as stated: whenever the retry counter reaches max_retries the call
\* waits for the operator, and it returns without a response only when the
\* final URL was outside the site, never for exhausted retries.  Violated:
\* the 443 branch counts a retry and goes back to the loop test, which ends
\* the loop at max_retries and returns None with no confirmation.
C22_NeverGivesUpUnconfirmed ==
    /\ rq.retries = rq_max_retries => rq.pc = "confirm"
    /\ (rq.pc = "done" /\ rq.ret = "none") => rq.last = "offsite"

\* C22 for transport errors and error statuses alone: the call has asked
\* the operator once for every max_retries failures
C22_ExceptBranchConfirms ==
    (rq.last \in {"http_error", "reset", "error"} /\ rq.retries = rq_max_retries)
        => rq.pc = "confirm"

\* C22, reached: the call returned None after a 443 response, the operator
\* never asked
C22_Witness ==
    /\ rq.pc = "done" /\ rq.ret = "none" /\ rq.last = "443"
    /\ rq.retries = rq_max_retries /\ rq.confirms = 0

\* the request just made failed in the except branch and the call has
\* waited before its next try
WaitedAfterError ==
    /\ rq.pc = "request" /\ rq.retries > 0
    /\ rq.last \in {"http_error", "reset", "error"}

\* C23, as stated: the wait before retry k after a transport error is
\* min(6 * 2^(k-1) + jitter, 45) with jitter in [0, 2]; after a connection
\* reset the 20-40 s band is waited instead of it.  Violated: after a
\* connection reset the call waits the band and then the exponential delay.
C23_BackoffOrBand ==
    WaitedAfterError =>
        IF rq.last = "reset"
        THEN rq.band = "20-40" /\ rq.delay = 0
        ELSE /\ rq.band = "none"
             /\ \E jitter \in Jitter : rq.delay = backoff(rq.retries, jitter)
             /\ rq.delay <= max_delay

\* C23 without the last part: the exponential delay is waited after every
\* failure of the except branch, and never exceeds 45
C23_ExponentialDelay ==
    WaitedAfterError =>
        /\ \E jitter \in Jitter : rq.delay = backoff(rq.retries, jitter)
        /\ rq.delay <= max_delay
        /\ rq.band = (IF rq.last = "reset" THEN "20-40" ELSE "none")

\* C23, reached: after a connection reset on the second try the call waited
\* 20-40 s and then twelve seconds and more
C23_Witness ==
    /\ WaitedAfterError /\ rq.last = "reset" /\ rq.retries = 2
    /\ rq.band = "20-40" /\ rq.delay >= 2 * base_delay

mrFrame == << pipeVars, dl, ku, st, pool, mt, pg, ex, rq, sv, pp, kp >>

\* MeituSpider._download_album, lines 233-275, on an album of kind k:
\* _parse_album_images raises on no response (response.text of None), an
\* album without images is appended to self.failed_albums, an image that
\* cannot be downloaded is appended to self.failed_images by _download_image
AfterDownloadAlbum(m, a, k) ==
    CASE k = "no_images" -> [m EXCEPT !.failed_albums = Append(@, a)]
      [] k = "image_fails" -> [m EXCEPT !.failed_images = Append(@, a)]
      [] OTHER -> m

ResultOf(k) ==
    CASE k = "no_response" -> "raised"
      [] k = "no_images" -> "false"
      [] OTHER -> "true"

\* run, lines 357-371: one album of the pool is processed and its future
\* collected; a False result is appended to the local list, an exception
\* is logged
MeituDownloadAlbum(a) ==
    /\ mr.pc = "pool" /\ a \in mr.found /\ mr.result[a] = "none"
    /\ LET k == mr.kind[a]
           m == AfterDownloadAlbum(mr, a, k)
       IN  mr' = [m EXCEPT !.result[a] = ResultOf(k),
                           !.run_failed = IF ResultOf(k) = "false"
                                          THEN @ + 1 ELSE @]
    /\ UNCHANGED mrFrame

\* run, line 368: what is appended to the list local to run is the result
\* of the call, the value False, not the album_info of the call
LocalFailed(m) == [i \in 1..m.run_failed |-> [pair |-> FALSE, album |-> 0]]

\* _download_album, line 234, on what the retry pool hands it: a
\* (title, URL) pair is unpacked and the album processed, anything else
\* raises before any work is done
UnpacksPair(album_info) == album_info.pair

\* run, lines 373-385: every item of the local list is submitted to
\* _download_album, and an exception of the call is logged
MeituRetryPool ==
    /\ mr.pc = "pool" /\ \A a \in mr.found : mr.result[a] # "none"
    /\ LET items == LocalFailed(mr)
       IN  mr' = [mr EXCEPT
                !.pc = "summary",
                !.submitted = items,
                !.auto_retried =
                    [a \in MrAlbums |->
                        Cardinality({ i \in 1..Len(items) :
                            UnpacksPair(items[i]) /\ items[i].album = a })]]
    /\ UNCHANGED mrFrame

\* where run goes after _retry_failed_albums
AfterAlbumRetry(m) ==
    IF m.failed_images # << >>
    THEN [m EXCEPT !.pc = "retry_images", !.i = 0,
                   !.start_images = m.failed_images]
    ELSE [m EXCEPT !.pc = "end"]

\* run, line 389: download_time/total_albums, the average time per album
AverageRaises(total_albums) == total_albums = 0

\* run, lines 386-410: the times are reported, the failure counts are
\* shown and the operator asked
MeituSummary ==
    /\ mr.pc = "summary"
    /\ IF AverageRaises(Cardinality(mr.found))
       THEN mr' = [mr EXCEPT !.pc = "raised"]
       ELSE IF Len(mr.failed_albums) + Len(mr.failed_images) = 0
       THEN mr' = [mr EXCEPT !.pc = "end"]
       ELSE \E retry_input \in {"y", "n"} :
            mr' = IF retry_input = "n" THEN [mr EXCEPT !.pc = "end"]
                  ELSE IF mr.failed_albums # << >>
                  THEN [mr EXCEPT !.pc = "retry_albums", !.i = 0,
                                  !.start_albums = mr.failed_albums]
                  ELSE AfterAlbumRetry(mr)
    /\ UNCHANGED mrFrame

\* _retry_failed_albums, lines 290-301: one turn of the for loop over
\* self.failed_albums, the list _download_album appends to
retry_failed_albums ==
    /\ mr.pc = "retry_albums" /\ mr.i < MaxTurns
    /\ IF mr.i >= Len(mr.failed_albums)
       THEN mr' = AfterAlbumRetry(mr)
       ELSE \E k \in AlbumKinds :
            LET a == mr.failed_albums[mr.i + 1]
                m == AfterDownloadAlbum(mr, a, k)
            IN  mr' = [m EXCEPT !.i = @ + 1,
                                !.retried_albums[a] = @ + 1,
                                !.pc = IF k = "no_response"
                                       THEN "crashed" ELSE @]
    /\ UNCHANGED mrFrame

\* _retry_failed_images, lines 277-288: one turn of the for loop over
\* self.failed_images, the list _download_image appends to
retry_failed_images ==
    /\ mr.pc = "retry_images" /\ mr.i < MaxTurns
    /\ IF mr.i >= Len(mr.failed_images)
       THEN mr' = [mr EXCEPT !.pc = "end"]
       ELSE \E ok \in BOOLEAN :
            LET x == mr.failed_images[mr.i + 1]
            IN  mr' = [mr EXCEPT !.i = @ + 1,
                                 !.retried_images[x] = @ + 1,
                                 !.failed_images =
                                     IF ok THEN @ ELSE Append(@, x)]
    /\ UNCHANGED mrFrame

InitMeituRun ==
    /\ InitWith({OneImageSite}, {FALSE}, {EmptyDir})
    /\ IdleExcept({"mr"})
    /\ \E found \in {{}, MrAlbums}, kind \in [MrAlbums -> AlbumKinds] :
          /\ \A a \in MrAlbums \ found : kind[a] = "ok"
          /\ mr = MrStart(found, kind)

NextMeituRun ==
    \/ \E a \in MrAlbums : MeituDownloadAlbum(a)
    \/ MeituRetryPool
    \/ MeituSummary
    \/ retry_failed_albums
    \/ retry_failed_images

SpecMeituRun == InitMeituRun /\ [][NextMeituRun]_vars

(***************************************************************************)
(* Claims checked under SpecMeituRun                                       *)
(***************************************************************************)
\* C25, as stated: once the album pool is through, every album was
\* processed and every album whose processing failed (no response for its
\* page, no images, an exception) is in the failed-album list shown at the
\* end of the run.  Violated: an album whose page gets no response makes
\* _parse_album_images raise, and run only logs the exception.
C25_FailedAlbumsRecorded ==
    mr.pc \in {"summary", "end"} =>
        \A a \in mr.found :
            /\ mr.result[a] # "none"
            /\ mr.result[a] \in {"false", "raised"} => InSeq(a, mr.failed_albums)

\* C25 for albums without images: they are recorded
C25_EmptyAlbumsRecorded ==
    mr.pc \in {"summary", "end"} =>
        \A a \in mr.found :
            /\ mr.result[a] # "none"
            /\ mr.result[a] = "false" => InSeq(a, mr.failed_albums)

\* C25, reached: the run ended with album 1 failed on no response and in
\* no failure list, and album 2 downloaded
C25_Witness ==
    /\ mr.pc = "end"
    /\ mr.result[1] = "raised" /\ mr.result[2] = "true"
    /\ mr.failed_albums = << >> /\ mr.failed_images = << >>

Count(x, seq) == Cardinality({ i \in 1..Len(seq) : seq[i] = x })

\* C30, as stated: the retry loops call each item that was in the failure
\* list at their start exactly once, and no other, also when an item fails
\* again.  Violated: an item that fails again is appended to the list the
\* loop iterates, so the loop comes to it again, and goes on for as long as
\* it fails.
C30_EachItemRetriedOnce ==
    \A a \in MrAlbums :
        /\ mr.retried_albums[a] <= Count(a, mr.start_albums)
        /\ mr.retried_images[a] <= Count(a, mr.start_images)
        /\ mr.pc = "end" =>
            /\ mr.retried_albums[a] = Count(a, mr.start_albums)
            /\ mr.retried_images[a] = Count(a, mr.start_images)

\* C30, reached: _retry_failed_albums started on a list holding album 1
\* once and has called _download_album on it three times
C30_Witness ==
    /\ mr.pc = "retry_albums"
    /\ mr.start_albums = << 1 >>
    /\ mr.retried_albums[1] = 3
    /\ Len(mr.failed_albums) = 4

(***************************************************************************)
(* Further claims checked under SpecPages                                  *)
(***************************************************************************)
\* C29, as stated: when a listing page gets no response, the listing loop
\* of SifangCrawler skips it and goes on with the pages after it, so that on
\* a listing of n pages linked in a line every page has been requested when
\* the loop ends.  Violated: the loop asks get_next_page for the next URL
\* with no soup, get_next_page answers None, and the loop ends there.
C29_ContinuesAfterFailedPage ==
    \A n \in ListingPages :
        (pg.loop \in {"get_all_albums", "crawl_albums"}
            /\ LinearListing(n) /\ pg.pc = "done")
        => \A p \in 1..n : InSeq(p, pg.visited)

\* C29, reached: crawl_albums ended after the one request for page 1 of a
\* three-page listing, which got no response
C29_Witness ==
    /\ pg.loop = "crawl_albums" /\ LinearListing(MaxPages)
    /\ pg.pc = "done" /\ pg.unanswered
    /\ pg.visited = << 1 >>

(***************************************************************************)
(* SpecSave: two album workers at the end of download_album, lines         *)
(* 768-772: save_completed_album(album_url), then save_cookies(), a        *)
(* statement a step.  Neither function takes a lock.                       *)
(***************************************************************************)
svFrame == << pipeVars, dl, ku, st, pool, mt, pg, ex, rq, mr, pp, kp >>

\* thread t has completed_albums.txt open (lines 132-133), cookies.json
\* open (lines 111-112), or is between the test and the add of lines 130-131
InAppend(t) == sv.pc[t] \in {"write", "close"}
InCookies(t) == sv.pc[t] \in {"dump", "cookies_close"}
InCheckAdd(t) == sv.pc[t] = "add"

\* save_completed_album, line 130: if album_url not in self.completed_albums
SvCheck(t) ==
    /\ sv.pc[t] = "check"
    /\ sv' = [sv EXCEPT !.pc[t] = IF sv.album_url[t] \in sv.completed_albums
                                  THEN "get_dict" ELSE "add"]
    /\ UNCHANGED svFrame

\* line 131: self.completed_albums.add(album_url)
SvAdd(t) ==
    /\ sv.pc[t] = "add"
    /\ sv' = [sv EXCEPT !.pc[t] = "open",
                        !.completed_albums = @ \cup {sv.album_url[t]}]
    /\ UNCHANGED svFrame

\* line 132: open(self.completed_albums_file, 'a')
SvOpen(t) ==
    /\ sv.pc[t] = "open"
    /\ sv' = [sv EXCEPT !.pc[t] = "write"]
    /\ UNCHANGED svFrame

\* line 133: f.write, into the buffer of f
SvWrite(t) ==
    /\ sv.pc[t] = "write"
    /\ sv' = [sv EXCEPT !.pc[t] = "close"]
    /\ UNCHANGED svFrame

\* leaving the with block: the line reaches the file
SvClose(t) ==
    /\ sv.pc[t] = "close"
    /\ sv' = [sv EXCEPT !.pc[t] = "get_dict",
                        !.lines = Append(@, sv.album_url[t])]
    /\ UNCHANGED svFrame

\* save_cookies, line 110: cookies = self.session.cookies.get_dict()
SvGetDict(t) ==
    /\ sv.pc[t] = "get_dict"
    /\ sv' = [sv EXCEPT !.pc[t] = "cookies_open"]
    /\ UNCHANGED svFrame

\* line 111: open(self.cookie_file, 'w') truncates the file
SvCookiesOpen(t) ==
    /\ sv.pc[t] = "cookies_open"
    /\ sv' = [sv EXCEPT !.pc[t] = "dump",
                        !.cookie_file = "empty",
                        !.overlapped =
                            [u \in SvThreads |->
                                IF u = t THEN \E v \in SvThreads : v # t /\ InCookies(v)
                                ELSE @[u] \/ InCookies(u)]]
    /\ UNCHANGED svFrame

\* line 112: json.dump, into the buffer of f
SvDump(t) ==
    /\ sv.pc[t] = "dump"
    /\ sv' = [sv EXCEPT !.pc[t] = "cookies_close"]
    /\ UNCHANGED svFrame

\* leaving the with block: the text reaches the file; two texts written
\* through two handles opened on the file at once land on each other
SvCookiesClose(t) ==
    /\ sv.pc[t] = "cookies_close"
    /\ \E content \in IF sv.overlapped[t] THEN {"whole", "mixed"} ELSE {"whole"} :
        sv' = [sv EXCEPT !.pc[t] = "done", !.cookie_file = content]
    /\ UNCHANGED svFrame

InitSave ==
    /\ InitWith({OneImageSite}, {FALSE}, {EmptyDir})
    /\ IdleExcept({"sv"})
    /\ \E album_url \in [SvThreads -> Albums] : sv = SvStart(album_url)

NextSave ==
    \E t \in SvThreads :
        \/ SvCheck(t)
        \/ SvAdd(t)
        \/ SvOpen(t)
        \/ SvWrite(t)
        \/ SvClose(t)
        \/ SvGetDict(t)
        \/ SvCookiesOpen(t)
        \/ SvDump(t)
        \/ SvCookiesClose(t)

SpecSave == InitSave /\ [][NextSave]_vars

(***************************************************************************)
(* Claims checked under SpecSave                                           *)
(***************************************************************************)
\* C26, as stated: no two album workers are at the same time between
\* opening and closing completed_albums.txt, nor between opening and
\* closing cookies.json, nor between the test and the add on the completed
\* set.  Violated: save_completed_album and save_cookies take no lock, and
\* they are called from the album workers of the pool.
C26_WritesSerialized ==
    \A t, u \in SvThreads :
        t # u => /\ ~(InAppend(t) /\ InAppend(u))
                 /\ ~(InCookies(t) /\ InCookies(u))
                 /\ ~(InCheckAdd(t) /\ InCheckAdd(u))

\* C26, reached: two workers finishing the same album both passed the test
\* before either added, and the album stands twice in completed_albums.txt
C26_Witness ==
    /\ \A t \in SvThreads : sv.pc[t] = "done"
    /\ sv.lines = << "a", "a" >>
    /\ sv.cookie_file = "mixed"

(***************************************************************************)
(* Further claims checked under SpecImage and SpecKu                       *)
(***************************************************************************)
\* C27, as stated, for SifangCrawler.download_image: a call makes at most
\* max_retries passes of its loop and returns False after the last, and a
\* pass whose validation failed has deleted the temp file when the next
\* pass begins.  Violated in its last part: outside POSIX os.unlink raises
\* while the other call on the same save_path holds the temp file open, the
\* except clause takes the exception and the next pass begins with the
\* corrupted file still there.
C27_BoundedAndDeleted ==
    /\ [](\A t \in Callers :
            /\ dl.thr[t].retry <= max_retries
            /\ (dl.thr[t].pc = "done" /\ dl.thr[t].retry = max_retries)
                   => dl.thr[t].ret = "false")
    /\ [][\A t \in Callers :
            (dl.thr[t].pc = "unlink" /\ dl'.thr[t].pc = "attempt")
                => dl'.tmp = "none"]_vars

\* C27, the bound alone, for download_image: holds under SpecImage
C27_ImageAttemptsBounded ==
    \A t \in Callers :
        /\ dl.thr[t].retry <= max_retries
        /\ (dl.thr[t].pc = "done" /\ dl.thr[t].retry = max_retries)
               => dl.thr[t].ret = "false"

\* C27 for the ku1372 download_album_wrapper: holds under SpecKu.  The
\* wrapper makes at most ku_max_retries passes and returns False after the
\* last, and a failed validation leaves no file at save_path for the next.
C27_KuBoundedAndDeleted ==
    /\ [](/\ ku.retry_count <= ku_max_retries
          /\ (ku.pc = "done" /\ ku.retry_count = ku_max_retries)
                 => ku.ret = "false")
    /\ [][(ku.pc = "validate" /\ ku'.pc = "loop") => ku'.zip = "none"]_vars

\* C27, reached: on a system that is not POSIX the validation of call 1
\* failed and call 2 holds the temp file open, so that os.unlink raises
C27_Witness ==
    /\ ~dl.posix
    /\ dl.thr[1].pc = "unlink" /\ dl.tmp # "none"
    /\ dl.thr[2].hnd = "tmp"

(***************************************************************************)
(* SpecProgress: two download_album calls reporting their progress.  Each  *)
(* update_stats call and each print_progress call holds stats_lock for its *)
(* whole body (lines 138-154) and is one step; nothing holds the lock      *)
(* from one call to the next.                                              *)
(***************************************************************************)
ppFrame == << pipeVars, dl, ku, st, pool, mt, pg, ex, rq, mr, sv, kp >>

\* update_stats, lines 138-141
update_stats(s, key, value) == [s EXCEPT ![key] = value]

\* download_album, line 717: update_stats('current_album', ...)
PpAlbum(w) ==
    /\ pp.pc[w] = "album"
    /\ pp' = [pp EXCEPT !.pc[w] = "progress0",
                        !.stats = update_stats(@, "current_album", w)]
    /\ UNCHANGED ppFrame

\* download_album, line 718: update_stats('current_album_progress', 0)
PpProgress0(w) ==
    /\ pp.pc[w] = "progress0"
    /\ pp' = [pp EXCEPT !.pc[w] = "progress",
                        !.stats = update_stats(@, "current_album_progress",
                                               [by |-> w, upd |-> 0])]
    /\ UNCHANGED ppFrame

\* download_album, lines 757-759: the progress after one more result
PpProgress(w) ==
    /\ pp.pc[w] = "progress"
    /\ pp' = IF pp.upd[w] = PpImgs
             THEN [pp EXCEPT !.pc[w] = "done"]
             ELSE [pp EXCEPT !.pc[w] = "image", !.upd[w] = @ + 1,
                             !.stats = update_stats(@, "current_album_progress",
                                            [by |-> w, upd |-> pp.upd[w] + 1])]
    /\ UNCHANGED ppFrame

\* download_album, line 760: update_stats('current_image', img_index)
PpImage(w) ==
    /\ pp.pc[w] = "image"
    /\ pp' = [pp EXCEPT !.pc[w] = "print",
                        !.stats = update_stats(@, "current_image",
                                               [by |-> w, upd |-> pp.upd[w]])]
    /\ UNCHANGED ppFrame

\* print_progress, lines 143-154, called at line 761
PpPrint(w) ==
    /\ pp.pc[w] = "print"
    /\ pp' = [pp EXCEPT !.pc[w] = "progress", !.printed = pp.stats,
                        !.prints = 1]
    /\ UNCHANGED ppFrame

\* print_progress called at line 679 by an image thread of the album of
\* worker w, whose download_image has just stored a file
PpImagePrint(w) ==
    /\ pp.pc[w] \in {"progress", "image", "print"}
    /\ pp' = [pp EXCEPT !.printed = pp.stats, !.prints = 1]
    /\ UNCHANGED ppFrame

InitProgress ==
    /\ InitWith({OneImageSite}, {FALSE}, {EmptyDir})
    /\ IdleExcept({"pp"})
    /\ pp = PpStart

NextProgress ==
    \E w \in PpWorkers :
        \/ PpAlbum(w)
        \/ PpProgress0(w)
        \/ PpProgress(w)
        \/ PpImage(w)
        \/ PpPrint(w)
        \/ PpImagePrint(w)

SpecProgress == InitProgress /\ [][NextProgress]_vars

(***************************************************************************)
(* Claims checked under SpecProgress                                       *)
(***************************************************************************)
\* the three values come from one progress update of one album worker
OneUpdate(s) ==
    /\ s.current_album_progress.by = s.current_album
    /\ s.current_image.by = s.current_album
    /\ s.current_image.upd = s.current_album_progress.upd

\* C28, as stated: what print_progress prints for the current album (album,
\* progress, image) always comes from one progress update of one album
\* worker.  Violated: the lock is held inside each update_stats call only,
\* so a print, or another worker's update, falls between the updates that
\* belong together.
C28_PrintsOneUpdate ==
    pp.prints > 0 => OneUpdate(pp.printed)

\* C28, reached: the call of line 761 by worker 1 printed the album of
\* worker 2 with the progress of worker 2 and the image of worker 1
C28_Witness ==
    /\ pp.prints > 0
    /\ pp.pc[1] = "progress" /\ pp.upd[1] = 1
    /\ pp.printed.current_album = 2
    /\ pp.printed.current_album_progress.by = 2
    /\ pp.printed.current_image = [by |-> 1, upd |-> 1]

(***************************************************************************)
(* Further claims checked under SpecMeituRun                               *)
(***************************************************************************)
\* C31, as stated: after the first download pass of MeituSpider.run, every
\* album whose _download_album returned False has been attempted again
\* exactly once by the automatic retry pass, with its own (title, URL)
\* pair.  Violated: the retry pass is handed the False results, and each
\* of its calls raises on unpacking its argument.
C31_FailedAlbumsRetriedOnce ==
    mr.pc \in {"summary", "end"} =>
        \A a \in MrAlbums :
            mr.result[a] = "false" => mr.auto_retried[a] = 1

\* C31, as far as it holds: the automatic retry pass makes one call for
\* every False result of the first pass
C31_OneCallPerFalseResult ==
    mr.pc \in {"summary", "end"} =>
        Len(mr.submitted)
            = Cardinality({ a \in MrAlbums : mr.result[a] = "false" })

\* C31, reached: album 1 held no images, the retry pass made its one call,
\* with the value False, and album 1 was not attempted again
C31_Witness ==
    /\ mr.pc = "summary"
    /\ mr.result[1] = "false" /\ mr.result[2] = "true"
    /\ Len(mr.submitted) = 1 /\ ~UnpacksPair(mr.submitted[1])
    /\ mr.auto_retried[1] = 0

(***************************************************************************)
(* SpecLive: one run of the pipeline with every thread scheduled again and *)
(* again: the producer thread, the main thread of download() and the       *)
(* threads of the album pool each take their next step when they have one. *)
(* A thread that died on an exception has no next step.                    *)
(***************************************************************************)
\* the steps of the thread running crawl_albums
Producer == CrawlFetch \/ CrawlPut \/ CrawlNext \/ CrawlSet

\* the steps of the main thread in download()
Consumer ==
    \/ MainCheckSet \/ MainCheckEmpty \/ MainGet \/ MainGetTimeout
    \/ MainWaitOne \/ MainDrain \/ MainReport

\* the steps of the threads of the album pool
PoolThreads ==
    \/ \E k \in Items : StartAlbum(k)
    \/ \E k \in Items : GetAlbumImages(k)
    \/ \E k \in Items, i \in ImgIdx : DownloadImage(k, i)
    \/ \E k \in Items : Collect(k)
    \/ \E k \in Items : FinishAlbum(k)

LiveListings == { << <<"a">>, <<"b">> >> }

InitLive ==
    /\ InitWith(Sites(LiveListings, 0), {FALSE}, {EmptyDir})
    /\ IdleExcept({})

SpecLive ==
    /\ InitLive /\ [][Next]_vars
    /\ WF_vars(Producer) /\ WF_vars(Consumer) /\ WF_vars(PoolThreads)

\* the consumer loop of download(), lines 846-876, has been left
LoopLeft == main.pc \in {"drain", "report", "crashed"}

\* C32, as stated: whenever the producer thread has stopped, by reaching
\* the end of crawl_albums or by an exception that ends the thread, the
\* consumer loop of download() is left after finitely many steps.
\* Violated: a thread that dies in crawl_albums never sets crawl_complete,
\* and the loop goes round on the five-second queue timeout for ever.
C32_DownloadTerminates == (crawl.pc \in {"done", "dead"}) ~> LoopLeft

\* C32 for a producer that reached the end of crawl_albums: the loop is left
C32_TerminatesAfterNormalEnd == (crawl.pc = "done") ~> LoopLeft

\* C32 as a state property: a stopped producer has set crawl_complete
C32_StoppedProducerHasSet ==
    crawl.pc \in {"done", "dead"} => crawl_complete

\* C32, reached: the producer died on its second listing page, the one
\* album it queued is downloaded, the queue is empty and the main thread
\* sits in album_queue.get with crawl_complete not set
C32_Witness ==
    /\ crawl.pc = "dead" /\ crawl.page = 2 /\ ~crawl_complete
    /\ main.pc = "get" /\ album_queue = << >> /\ main.futures = {1}
    /\ task[1].pc = "done"

(***************************************************************************)
(* Batch mode and pipelined mode                                           *)
(***************************************************************************)
\* get_all_albums, lines 267-270: the albums of one listing page are added
\* to self.album_queue, each unless it is in completed_albums or already
\* in the queue
RECURSIVE BatchPut(_, _, _)
BatchPut(queue, albums, completed) ==
    IF albums = << >> THEN queue
    ELSE LET album_url == Head(albums)
         IN  BatchPut(IF album_url \notin completed /\ ~InSeq(album_url, queue)
                      THEN Append(queue, album_url) ELSE queue,
                      Tail(albums), completed)

\* get_all_albums, lines 250-282, on listing pages that all answer: the
\* queue it returns
RECURSIVE BatchFrom(_, _, _)
BatchFrom(queue, pages, completed) ==
    IF pages = << >> THEN queue
    ELSE BatchFrom(BatchPut(queue, Head(pages), completed), Tail(pages),
                   completed)

BatchQueue(pages, completed) == BatchFrom(<< >>, pages, completed)

\* the album URLs that download() has handed to download_album, in the
\* order of their submission (the queue is first in, first out)
Handed ==
    LET ks == { k \in Items : task[k].subs > 0 }
    IN  [k \in 1..Cardinality(ks) |-> task[k].url]

\* the producer saw every listing page and download() has left its pool
PipelineThrough ==
    /\ crawl.pc = "done" /\ crawl.seen = ListedOn(listing)
    /\ main.pc \in {"report", "crashed"}

\* C33, as stated: when the pipelined download() is through with a site
\* whose listing pages all answered, the albums it handed to download_album
\* are those get_all_albums would have queued for that site with the same
\* ProgressRecord: every listed album that is not in the record, once.
\* Violated: crawl_albums does not look for the album in the queue, so an
\* album listed on two pages is handed over twice unless its first
\* download was recorded before the second page was read.
C33_SameAlbumsAsBatch ==
    PipelineThrough => Handed = BatchQueue(listing, hist.completed0)

\* C33 without the count: the same set of albums is handed over, and none
\* that is in the ProgressRecord at the start
C33_SameAlbumSetAsBatch ==
    PipelineThrough =>
        /\ Range(Handed) = Range(BatchQueue(listing, hist.completed0))
        /\ Range(Handed) \cap hist.completed0 = {}

\* C33, reached: album "a" is listed on both pages and was handed to
\* download_album twice in a run that started with an empty record
C33_Witness ==
    /\ PipelineThrough
    /\ listing = << <<"a">>, <<"a">> >> /\ hist.completed0 = {}
    /\ Handed = << "a", "a" >>
    /\ BatchQueue(listing, hist.completed0) = << "a" >>

(***************************************************************************)
(* Further claims checked under SpecKu                                     *)
(***************************************************************************)
\* C34: a download_album_wrapper call that downloads returns True only
\* with a file at the destination that has at least 1024 bytes, holds no
\* HTML marker in its first 512 bytes and, when the response announced a
\* content-length, is within 1024 bytes of it; and when the call has
\* returned False there is no file at the destination.
C34_TrueOnlyIfValidFalseLeavesNoFile ==
    /\ [][(ku.pc = "validate" /\ ku'.ret = "true")
            => /\ ku'.zip \in {"full", "short"}
               /\ ku'.announced => ku'.zip = "full"]_vars
    /\ [](ku.pc = "done" /\ ku.ret = "false" => ku.zip = "none")

\* C34, reached: the call removed the files of five rejected downloads and
\* returned False, no file at the destination
C34_Witness ==
    /\ ku.pc = "done" /\ ku.ret = "false"
    /\ ku.retry_count = ku_max_retries /\ ku.zip = "none"

(***************************************************************************)
(* SpecKuPool: ku1372 main() over the listing pages of one tag, from the   *)
(* counting of the albums of a page to the sum after its pool.  kp.fresh   *)
(* counts the wrapper calls that completed a fresh download.               *)
(***************************************************************************)
kpFrame == << pipeVars, dl, ku, st, pool, mt, pg, ex, rq, mr, sv, pp >>

\* lines 421-430: one turn of "for album in current_page_albums"
KpCount ==
    /\ kp.pc = "count" /\ kp.counted < kp.n
    /\ kp' = [kp EXCEPT !.counted = @ + 1, !.total_albums_count = @ + 1]
    /\ UNCHANGED kpFrame

\* lines 433 and 601-607: thread_success_count = 0, then every album of
\* the page is submitted to the pool
KpSubmit ==
    /\ kp.pc = "count" /\ kp.counted = kp.n
    /\ kp' = [kp EXCEPT
                !.pc = "pool", !.thread_success_count = 0,
                !.collected = {},
                !.thr = [a \in KpThreads |->
                            IF a <= kp.n THEN [KpThreadIdle EXCEPT !.pc = "run"]
                            ELSE KpThreadIdle]]
    /\ UNCHANGED kpFrame

\* download_album_wrapper, lines 436-598, up to its return or to the
\* increment of line 573
KpWrapper(a) ==
    /\ kp.pc = "pool" /\ kp.thr[a].pc = "run"
    /\ \E out \in KpOutcomes :
          kp' = [kp EXCEPT !.thr[a].outcome = out,
                           !.thr[a].pc = IF out = "fresh" THEN "load"
                                         ELSE "done"]
    /\ UNCHANGED kpFrame

\* line 573, "thread_success_count += 1": the value is read
KpLoad(a) ==
    /\ kp.pc = "pool" /\ kp.thr[a].pc = "load"
    /\ kp' = [kp EXCEPT !.thr[a].loaded = kp.thread_success_count,
                        !.thr[a].pc = "store"]
    /\ UNCHANGED kpFrame

\* line 573: the value read plus one is stored; line 574 returns True
KpStore(a) ==
    /\ kp.pc = "pool" /\ kp.thr[a].pc = "store"
    /\ kp' = [kp EXCEPT !.thread_success_count = kp.thr[a].loaded + 1,
                        !.thr[a].pc = "done",
                        !.fresh = @ + 1]
    /\ UNCHANGED kpFrame

\* mutant of ProcessedAfter: a call that raised is not counted
ProcessedUnlessRaised(n, outcome) == IF outcome = "raise" THEN n ELSE n + 1

\* lines 611-619: processed_albums_count after a future was handled,
\* whether future.result() raised or not
ProcessedAfter(n, outcome) == n + 1

\* lines 609-622: one turn of "for future in as_completed(...)"
KpCollect(a) ==
    /\ kp.pc = "pool" /\ kp.thr[a].pc = "done" /\ a \notin kp.collected
    /\ kp' = [kp EXCEPT
                !.collected = @ \cup {a},
                !.processed_albums_count =
                    ProcessedAfter(@, kp.thr[a].outcome)]
    /\ UNCHANGED kpFrame

\* the end of the "with" block: every future was handled
KpPoolDone ==
    /\ kp.pc = "pool"
    /\ \A a \in KpThreads : a <= kp.n => a \in kp.collected
    /\ kp' = [kp EXCEPT !.pc = "sum"]
    /\ UNCHANGED kpFrame

\* lines 625-656: total_success += thread_success_count, then the next
\* listing page with its albums, or the end of the tag
KpSum ==
    /\ kp.pc = "sum"
    /\ \/ /\ kp.page < KpPages
          /\ \E n \in 0..KpAlbums :
               kp' = [kp EXCEPT !.total_success = @ + kp.thread_success_count,
                                !.pc = "count", !.page = @ + 1,
                                !.n = n, !.counted = 0]
       \/ kp' = [kp EXCEPT !.total_success = @ + kp.thread_success_count,
                           !.pc = "end"]
    /\ UNCHANGED kpFrame

InitKuPool ==
    /\ InitWith({OneImageSite}, {FALSE}, {EmptyDir})
    /\ IdleExcept({"kp"})
    /\ \E n \in 1..KpAlbums : kp = KpStart(n)

NextKuPool ==
    \/ KpCount
    \/ KpSubmit
    \/ \E a \in KpThreads : KpWrapper(a)
    \/ \E a \in KpThreads : KpLoad(a)
    \/ \E a \in KpThreads : KpStore(a)
    \/ \E a \in KpThreads : KpCollect(a)
    \/ KpPoolDone
    \/ KpSum

SpecKuPool == InitKuPool /\ [][NextKuPool]_vars

(***************************************************************************)
(* Claims checked under SpecKuPool                                         *)
(***************************************************************************)
\* the wrapper calls of the current page that completed a fresh download
FreshOnPage ==
    Cardinality({ a \in KpThreads : kp.thr[a].outcome = "fresh" })

\* C35, as stated: after the pool of a listing page has finished,
\* thread_success_count is the number of wrapper calls of that page that
\* completed a fresh download, whatever the interleaving of the threads,
\* and total_success is the sum of these counts over the pages.
\* Violated: the increment reads and stores the counter without a lock,
\* and two threads that read the same value count one download.
C35_CountsEveryFreshDownload ==
    /\ kp.pc = "sum" => kp.thread_success_count = FreshOnPage
    /\ kp.pc \in {"count", "end"} => kp.total_success = kp.fresh

\* C35 for the sum alone: total_success is the sum of the values
\* thread_success_count had after each pool, at most the fresh downloads
C35_SumOfPageCounts ==
    /\ kp.total_success <= kp.fresh
    /\ kp.pc = "sum" => kp.thread_success_count <= FreshOnPage
    /\ (kp.pc = "sum" /\ FreshOnPage > 0) => kp.thread_success_count > 0

\* C35, reached: both calls of the page completed a fresh download and
\* thread_success_count is 1 after the pool
C35_Witness ==
    /\ kp.pc = "sum" /\ kp.n = 2
    /\ FreshOnPage = 2 /\ kp.thread_success_count = 1

\* C36: processed_albums_count never exceeds total_albums_count, and after
\* the pool of each listing page the two counters are equal.
C36_ProcessedWithinTotal ==
    /\ kp.processed_albums_count <= kp.total_albums_count
    /\ kp.pc \in {"sum", "end"} =>
           kp.processed_albums_count = kp.total_albums_count

\* C36, reached: the pool of the second page has finished, one of its
\* calls having raised, and both counters stand at four
C36_Witness ==
    /\ kp.pc = "sum" /\ kp.page = 2
    /\ \E a \in KpThreads : kp.thr[a].outcome = "raise"
    /\ kp.processed_albums_count = 4 /\ kp.total_albums_count = 4

(***************************************************************************)
(* Further claims checked under SpecSave                                   *)
(***************************************************************************)
\* no step takes an entry out of the completed set or changes a line of
\* completed_albums.txt that was written
SvAppendOnly ==
    /\ sv.completed_albums \subseteq sv'.completed_albums
    /\ Len(sv.lines) <= Len(sv'.lines)
    /\ \A i \in 1..Len(sv.lines) : sv'.lines[i] = sv.lines[i]

\* every URL written to the file is in the set
SvFileWithinSet == Range(sv.lines) \subseteq sv.completed_albums

\* C37, as stated: the ProgressRecord is append-only and free of
\* duplicates: no step removes or rewrites an entry of the set or a line
\* of the file, every URL in the file is in the set, and no URL is
\* appended to the file twice in a run, whatever the interleaving of the
\* album workers.  Violated: two workers that finish the same album can
\* both pass the test of line 130 before either adds, and both append.
C37_AppendOnlyDuplicateFree ==
    /\ [][SvAppendOnly]_vars
    /\ [](SvFileWithinSet)
    /\ [](\A a \in Albums : Count(a, sv.lines) <= 1)

\* C37 without the duplicates: append-only, and the file within the set
C37_AppendOnly == [][SvAppendOnly]_vars /\ [](SvFileWithinSet)

\* C37, reached: both workers are through save_completed_album, the set
\* holds album "b" once and the file holds it on two lines
C37_Witness ==
    /\ \A t \in SvThreads : sv.pc[t] = "done"
    /\ sv.completed_albums = {"b"}
    /\ sv.lines = << "b", "b" >>

\* C38, as stated: when the listing crawl found no album, MeituSpider.run
\* goes through its final report to its end and raises nothing.
\* Violated: the report computes download_time/total_albums, and with no
\* album that is a division by zero.
C38_EndsWithoutAlbums ==
    (mr.found = {} /\ mr.pc \in {"end", "raised"}) => mr.pc = "end"

\* C38 for a crawl that found albums: run raises nothing in its report
C38_EndsWithAlbums ==
    mr.found # {} => mr.pc # "raised"

\* C38, reached: no album was found, the pool had nothing to do, and run
\* raised in its final report
C38_Witness ==
    /\ mr.found = {} /\ mr.pc = "raised"
    /\ \A a \in MrAlbums : mr.result[a] = "none"
    /\ mr.submitted = << >>

====
